---- MODULE Spec2Model ----
(***************************************************************************)
(* Class-SNA: the multi-layer relational graph analysis engine.            *)
(*                                                                         *)
(*   MultiLayerNetworkAnalyzer  (app/services/multilayer_analyzer.py)      *)
(*   AvoidanceWarningSystem     (app/services/avoidance_analyzer.py)       *)
(*                                                                         *)
(* Graphs are networkx DiGraphs: nodes and adjacency keep insertion order, *)
(* which is the order edges() and predecessors() iterate in.               *)
(* Relationship-type weights are kept in tenths (1.0 -> 10, 0.8 -> 8).     *)
(***************************************************************************)
EXTENDS Integers, Sequences, FiniteSets, TLC

\* ------------------------------------------------------------------ bounds
\* roster size of the layer-builder specification
MaxStudents == 2
\* number of response records handed to the analyzer
MaxResponses == 2
\* length of one target list
MaxTargets == 2
\* nodes and edges of an avoidance graph handed to the warning system directly
MaxAvoidNodes == 4
MaxAvoidEdges == 3
\* positive layers that hold the edge into the last roster member
MaxPositiveIn == 3
\* community ids a partition of the avoidance graph uses
MaxCommunities == 2
\* individuals of an avoidance ring, one more than the cap on one-way warnings
MaxRingNodes == 6
\* roster size of the metrics-engine specification
MaxMetricNodes == 3
\* nominations per response in the entry-point specification
MaxEngineTargets == 1
\* individuals of the avoidance ring of the re-run specification
MaxRerunNodes == 4
\* completed responses of the classroom in the service specifications
MaxServiceResponses == 1
\* library calls that fail within one pass over a layer
MaxFailures == 1

\* display names of the roster, by student id (unique within a classroom,
\* models.py uq_classroom_student_name)
StudentNames == <<"A", "B", "C", "D", "E", "F", "G", "H">>

\* ------------------------------------------------------------- configuration
\* dict order of MultiLayerNetworkAnalyzer.RELATIONSHIP_TYPES
RelTypeOrder ==
    <<"friends", "helpers", "teammates", "leaders", "trust", "communication", "avoidance">>

\* polarity and weight (in tenths) of each relationship type
RELATIONSHIP_TYPES ==
    [friends       |-> [positive |-> TRUE,  weight |-> 10],
     helpers       |-> [positive |-> TRUE,  weight |-> 8],
     teammates     |-> [positive |-> TRUE,  weight |-> 9],
     leaders       |-> [positive |-> TRUE,  weight |-> 7],
     trust         |-> [positive |-> TRUE,  weight |-> 10],
     communication |-> [positive |-> TRUE,  weight |-> 6],
     avoidance     |-> [positive |-> FALSE, weight |-> 10]]

RelTypes == {RelTypeOrder[i] : i \in 1..Len(RelTypeOrder)}

PositiveTypes == {t \in RelTypes : RELATIONSHIP_TYPES[t].positive}

\* ------------------------------------------------------------------ helpers
Range(s) == {s[i] : i \in 1..Len(s)}

\* all sequences over S of length at most n
SeqsUpTo(S, n) == UNION {[1..k -> S] : k \in 0..n}

\* Python's None / a present value, for an Optional attribute
None == <<>>
Some(x) == <<x>>

\* ---------------------------------------------------------------- nx.DiGraph
\* nodes : node names in insertion order
\* succ  : node -> successors in edge-insertion order   (G.succ / G[u])
\* pred  : node -> predecessors in edge-insertion order (G.pred)
\* weight: <<u, v>> -> the edge's 'weight' attribute
EmptyGraph ==
    [nodes |-> <<>>, succ |-> <<>>, pred |-> <<>>, weight |-> <<>>]

Nodes(G) == Range(G.nodes)

EdgeSet(G) == DOMAIN G.weight

HasNode(G, n) == n \in Nodes(G)

HasEdge(G, u, v) == <<u, v>> \in EdgeSet(G)

AddNode(G, n) ==
    IF HasNode(G, n) THEN G
    ELSE [nodes  |-> Append(G.nodes, n),
          succ   |-> [x \in Nodes(G) \cup {n} |-> IF x = n THEN <<>> ELSE G.succ[x]],
          pred   |-> [x \in Nodes(G) \cup {n} |-> IF x = n THEN <<>> ELSE G.pred[x]],
          weight |-> G.weight]

\* G.add_edge(u, v, weight=w): adds missing endpoints, then sets the attribute
AddEdge(G0, u, v, w) ==
    LET G == AddNode(AddNode(G0, u), v)
    IN  IF HasEdge(G, u, v)
        THEN [G EXCEPT !.weight = [e \in EdgeSet(G) |-> IF e = <<u, v>> THEN w ELSE G.weight[e]]]
        ELSE [nodes  |-> G.nodes,
              succ   |-> [G.succ EXCEPT ![u] = Append(@, v)],
              pred   |-> [G.pred EXCEPT ![v] = Append(@, u)],
              weight |-> [e \in EdgeSet(G) \cup {<<u, v>>} |->
                             IF e = <<u, v>> THEN w ELSE G.weight[e]]]

NumberOfNodes(G) == Len(G.nodes)

NumberOfEdges(G) == Cardinality(EdgeSet(G))

Successors(G, n) == G.succ[n]

Predecessors(G, n) == G.pred[n]

\* unweighted degrees: G.in_degree(n), G.out_degree(n)
InDegree(G, n) == Len(G.pred[n])

OutDegree(G, n) == Len(G.succ[n])

RECURSIVE EdgesFrom(_, _)
EdgesFrom(G, i) ==
    IF i > Len(G.nodes) THEN <<>>
    ELSE LET u == G.nodes[i]
         IN  [k \in 1..Len(G.succ[u]) |-> <<u, G.succ[u][k]>>] \o EdgesFrom(G, i + 1)

\* G.edges(): by source in node order, then by adjacency order
Edges(G) == EdgesFrom(G, 1)

\* ------------------------------------------------------- analyzer inputs
\* students: the dict {student_id: Student} as its items in dict order
Roster(n) == [i \in 1..n |-> [id |-> i, name |-> StudentNames[i]]]

\* a target id as found in a stored response: an integer, a numeric string
\* (val is the number it spells) or something int() rejects
IntTok(i) == [kind |-> "int", val |-> i]
NumStrTok(i) == [kind |-> "numstr", val |-> i]
BadTok == [kind |-> "bad", val |-> 0]

\* the value stored under one key of a response: a list of target ids, a bare
\* string, or a truthy scalar that is neither (an integer, say)
ListVal(items) == [kind |-> "list", items |-> items]
StrVal(tok) == [kind |-> "str", items |-> <<tok>>]
ScalarVal == [kind |-> "scalar", items |-> <<>>]

\* SurveyResponse.responses: missing (None), a dict, or a truthy JSON value
\* that is not a dict
NonePayload == [kind |-> "none", map |-> <<>>]
NonDictPayload == [kind |-> "nondict", map |-> <<>>]
DictPayload(m) == [kind |-> "dict", map |-> m]

\* target ids of a roster of n students: integers and a numeric string (as a
\* form post stores them); id n + 1 resolves to no roster member
Tokens(n) == {IntTok(i) : i \in 1..(n + 1)} \cup {NumStrTok(1)}

Values(n) ==
    {ListVal(l) : l \in SeqsUpTo(Tokens(n), MaxTargets)}
        \cup {StrVal(NumStrTok(1)), StrVal(BadTok), ScalarVal}

\* relationship keys a stored response carries here
PayloadKeys == {"friends", "helpers", "avoidance"}

\* a key that is no relationship type
UnknownKeyPayload == DictPayload([x \in {"nickname"} |-> ListVal(<<IntTok(1)>>)])

Payloads(n) ==
    {NonePayload, NonDictPayload, UnknownKeyPayload}
        \cup {DictPayload([x \in {k} |-> v]) : k \in PayloadKeys, v \in Values(n)}

\* records of roster members, and one of a respondent outside the roster
Responses(n) ==
    [student_id : 1..n, responses : Payloads(n)]
        \cup {[student_id |-> n + 1,
               responses |-> DictPayload([x \in {"friends"} |-> ListVal(<<IntTok(1)>>)])]}

\* ------------------------------------------- MultiLayerNetworkAnalyzer
VARIABLES
    students,        \* self.students, as dict items
    responses,       \* self.responses
    layers,          \* self.layers: relationship type -> DiGraph
    combined_graph,  \* self.combined_graph (None until built)
    status           \* "new" | "built" | "raised": how the last build_layers ended

ml_vars == <<students, responses, layers, combined_graph, status>>

VARIABLES
    layer_metrics,        \* self.layer_metrics: layer key -> metrics dict
    cross_layer_metrics,  \* self.cross_layer_metrics
    nx_calls,             \* layer key -> the library algorithms the last
                          \* analyze_all_layers ran on that graph
    returned              \* what the last query or service call handed back
                          \* (None before any)

me_vars == <<layer_metrics, cross_layer_metrics, nx_calls, returned>>

VARIABLES
    loaded_students,   \* ClassroomAnalyzer.students, as dict items ({} before load_data)
    loaded_responses,  \* ClassroomAnalyzer.responses
    network_data,      \* ClassroomAnalyzer.network_data (None until converted)
    analysis_result,   \* ClassroomAnalyzer.analysis_result (None until analysed)
    analysis_rows      \* the AnalysisResult rows stored for the classroom

ca_vars == <<loaded_students, loaded_responses, network_data, analysis_result,
             analysis_rows>>

\* self.id_to_name
IdToName(studs) ==
    [i \in {studs[k].id : k \in 1..Len(studs)} |->
        studs[CHOOSE k \in 1..Len(studs) : studs[k].id = i].name]

\* list(self.id_to_name.values())
AllNodes(studs) == [k \in 1..Len(studs) |-> studs[k].name]

\* int(target_id), with ValueError / TypeError as ok = FALSE
IntParse(tok) ==
    IF tok.kind \in {"int", "numstr"}
    THEN [ok |-> TRUE, val |-> tok.val]
    ELSE [ok |-> FALSE, val |-> 0]

\* resolution of one target id against the roster (lines 117-125)
ResolveTarget(tok, id_to_name) ==
    LET p == IntParse(tok)
    IN  IF ~p.ok THEN None
        ELSE IF p.val \notin DOMAIN id_to_name THEN None
        ELSE Some(id_to_name[p.val])

\* mutant: a repeated nomination sets the edge again instead of counting
AddOrIncrement_Overwrite(G, source_name, target_name) ==
    AddEdge(G, source_name, target_name, 1)

\* lines 127-131: add the edge or increment its weight
AddOrIncrement(G, source_name, target_name) ==
    IF HasEdge(G, source_name, target_name)
    THEN [G EXCEPT !.weight[<<source_name, target_name>>] = @ + 1]
    ELSE AddEdge(G, source_name, target_name, 1)

\* the loop over target_ids (lines 116-131)
RECURSIVE AddTargets(_, _, _, _)
AddTargets(G, source_name, target_ids, id_to_name) ==
    IF target_ids = <<>> THEN G
    ELSE LET t == ResolveTarget(Head(target_ids), id_to_name)
             G1 == IF t = None THEN G ELSE AddOrIncrement(G, source_name, t[1])
         IN  AddTargets(G1, source_name, Tail(target_ids), id_to_name)

\* response_data.get(rel_type, []) on (response.responses or {})
GetTargetIds(payload, rel_type) ==
    IF payload.kind = "dict" /\ rel_type \in DOMAIN payload.map
    THEN payload.map[rel_type]
    ELSE ListVal(<<>>)

\* one iteration of the loop over responses (lines 100-131); raised is an
\* exception leaving build_layers (AttributeError on .get of a non-dict,
\* TypeError on iterating a scalar)
AddResponse(G, response, rel_type, id_to_name) ==
    IF response.student_id \notin DOMAIN id_to_name
    THEN [raised |-> FALSE, G |-> G]
    ELSE IF response.responses.kind = "nondict"
    THEN [raised |-> TRUE, G |-> G]
    ELSE LET target_ids == GetTargetIds(response.responses, rel_type)
         IN  IF target_ids.kind = "scalar"
             THEN [raised |-> TRUE, G |-> G]
             ELSE [raised |-> FALSE,
                   G |-> AddTargets(G, id_to_name[response.student_id],
                                    target_ids.items, id_to_name)]

RECURSIVE AddResponses(_, _, _, _)
AddResponses(G, resps, rel_type, id_to_name) ==
    IF resps = <<>> THEN [raised |-> FALSE, G |-> G]
    ELSE LET r == AddResponse(G, Head(resps), rel_type, id_to_name)
         IN  IF r.raised THEN r
             ELSE AddResponses(r.G, Tail(resps), rel_type, id_to_name)

\* mutant: no node is added up front, nodes arrive with their edges only
RosterGraph_EdgesOnly(G, names) == G

\* a graph holding the whole roster as nodes (lines 93-97, 143-147)
RECURSIVE RosterGraph(_, _)
RosterGraph(G, names) ==
    IF names = <<>> THEN G ELSE RosterGraph(AddNode(G, Head(names)), Tail(names))

\* the body of the loop over relationship types (lines 93-131)
BuildLayer(studs, resps, rel_type) ==
    AddResponses(RosterGraph(EmptyGraph, AllNodes(studs)), resps, rel_type,
                 IdToName(studs))

\* dict assignment d[k] = v
Put(d, k, v) == [x \in DOMAIN d \cup {k} |-> IF x = k THEN v ELSE d[x]]

\* the loop over RELATIONSHIP_TYPES (lines 92-134); a raise leaves the layers
\* assigned so far in self.layers
RECURSIVE BuildLayersFrom(_, _, _, _)
BuildLayersFrom(i, lays, studs, resps) ==
    IF i > Len(RelTypeOrder) THEN [raised |-> FALSE, layers |-> lays]
    ELSE LET r == BuildLayer(studs, resps, RelTypeOrder[i])
         IN  IF r.raised THEN [raised |-> TRUE, layers |-> lays]
             ELSE BuildLayersFrom(i + 1, Put(lays, RelTypeOrder[i], r.G), studs, resps)

\* self.layers.items(): the keys in dict order
LayerKeys(lays) == SelectSeq(RelTypeOrder, LAMBDA t : t \in DOMAIN lays)

\* edge_weights[(u, v)] += weight * type_weight over one layer's edges
RECURSIVE AccumulateEdges(_, _, _, _)
AccumulateEdges(acc, G, es, type_weight) ==
    IF es = <<>> THEN acc
    ELSE LET e == Head(es)
             w == G.weight[e] * type_weight
             acc1 == IF e \in DOMAIN acc.w
                     THEN [acc EXCEPT !.w[e] = @ + w]
                     ELSE [keys |-> Append(acc.keys, e), w |-> Put(acc.w, e, w)]
         IN  AccumulateEdges(acc1, G, Tail(es), type_weight)

\* mutant: the avoidance layer is merged like the others
IsPositive_Always(rel_type) == TRUE

\* self.RELATIONSHIP_TYPES[rel_type]['positive'] (line 153)
IsPositive(rel_type) == RELATIONSHIP_TYPES[rel_type].positive

\* the loop over self.layers.items() (lines 152-159)
RECURSIVE AccumulateLayers(_, _, _)
AccumulateLayers(acc, lays, keys) ==
    IF keys = <<>> THEN acc
    ELSE LET rel_type == Head(keys)
             acc1 == IF ~IsPositive(rel_type) THEN acc
                     ELSE AccumulateEdges(acc, lays[rel_type], Edges(lays[rel_type]),
                                          RELATIONSHIP_TYPES[rel_type].weight)
         IN  AccumulateLayers(acc1, lays, Tail(keys))

RECURSIVE AddWeightedEdges(_, _, _)
AddWeightedEdges(G, keys, w) ==
    IF keys = <<>> THEN G
    ELSE AddWeightedEdges(AddEdge(G, Head(keys)[1], Head(keys)[2], w[Head(keys)]),
                          Tail(keys), w)

\* _build_combined_graph
BuildCombinedGraph(studs, lays) ==
    LET edge_weights == AccumulateLayers([keys |-> <<>>, w |-> <<>>], lays, LayerKeys(lays))
    IN  AddWeightedEdges(RosterGraph(EmptyGraph, AllNodes(studs)),
                         edge_weights.keys, edge_weights.w)

\* no ClassroomAnalyzer instance in play: the fields as __init__ sets them
\* (lines 38-42), no stored analysis row
NoClassroomAnalyzer ==
    /\ loaded_students = <<>>
    /\ loaded_responses = <<>>
    /\ network_data = None
    /\ analysis_result = None
    /\ analysis_rows = <<>>

\* MultiLayerNetworkAnalyzer(students, responses)
InitAnalyzer ==
    /\ \E n \in 0..MaxStudents :
          /\ students = Roster(n)
          /\ responses \in SeqsUpTo(Responses(n), MaxResponses)
    /\ layers = <<>>
    /\ combined_graph = None
    /\ status = "new"
    /\ layer_metrics = <<>>
    /\ cross_layer_metrics = <<>>
    /\ nx_calls = <<>>
    /\ returned = None
    /\ NoClassroomAnalyzer

\* build_layers()
BuildLayers ==
    LET r == BuildLayersFrom(1, layers, students, responses)
    IN  /\ layers' = r.layers
        /\ combined_graph' = IF r.raised THEN combined_graph
                             ELSE Some(BuildCombinedGraph(students, r.layers))
        /\ status' = IF r.raised THEN "raised" ELSE "built"
        /\ UNCHANGED <<students, responses>>

\* ------------------------------------------------ AvoidanceWarningSystem
VARIABLES
    avoidance_graph,  \* self.avoidance_graph (None while no system is constructed)
    positive_layers,  \* self.positive_layers: layer name -> DiGraph
    warnings,         \* self.warnings
    result            \* what the last analyze() returned (None before)

aws_vars == <<avoidance_graph, positive_layers, warnings, result>>

vars == <<students, responses, layers, combined_graph, status,
          layer_metrics, cross_layer_metrics, nx_calls, returned,
          loaded_students, loaded_responses, network_data, analysis_result,
          analysis_rows,
          avoidance_graph, positive_layers, warnings, result>>

\* WARNING_LEVELS[level]['priority']
WARNING_LEVELS ==
    [CRITICAL |-> [priority |-> 1, action_required |-> TRUE],
     HIGH     |-> [priority |-> 2, action_required |-> TRUE],
     MODERATE |-> [priority |-> 3, action_required |-> FALSE],
     LOW      |-> [priority |-> 4, action_required |-> FALSE]]

\* WARNING_TYPES[type]['level']
WARNING_TYPES ==
    [MUTUAL_AVOIDANCE        |-> [level |-> "CRITICAL"],
     AVOIDANCE_TARGET        |-> [level |-> "HIGH"],
     AVOIDANCE_INITIATOR     |-> [level |-> "MODERATE"],
     ISOLATED_WITH_AVOIDANCE |-> [level |-> "HIGH"],
     AVOIDANCE_CLUSTER       |-> [level |-> "MODERATE"],
     ONE_WAY_AVOIDANCE       |-> [level |-> "LOW"]]

\* the dict appended to self.warnings (texts left out)
Warning(id, type, studs, data) ==
    [id |-> id, type |-> type, level |-> WARNING_TYPES[type].level,
     students |-> studs, data |-> data]

\* _find_mutual_avoidance: the loop over edges(), r = [pairs, seen, warnings]
RECURSIVE MutualLoop(_, _, _)
MutualLoop(G, es, r) ==
    IF es = <<>> THEN r
    ELSE LET u == Head(es)[1]
             v == Head(es)[2]
             r1 == IF <<v, u>> \notin r.seen /\ HasEdge(G, v, u)
                   THEN [pairs |-> Append(r.pairs, <<u, v>>),
                         seen |-> r.seen \cup {<<u, v>>},
                         warnings |-> Append(r.warnings,
                             Warning("mutual_" \o u \o "_" \o v, "MUTUAL_AVOIDANCE",
                                     <<u, v>>, [student_a |-> u, student_b |-> v]))]
                   ELSE r
         IN  MutualLoop(G, Tail(es), r1)

FindMutualAvoidance(G, ws) ==
    LET r == MutualLoop(G, Edges(G), [pairs |-> <<>>, seen |-> {}, warnings |-> ws])
    IN  [pattern |-> r.pairs, warnings |-> r.warnings]

\* mutant: the threshold itself does not count
MeetsThreshold_Above(n, threshold) == n > threshold

\* len(avoiders) >= threshold (lines 179, 205)
MeetsThreshold(n, threshold) == n >= threshold

\* _find_avoidance_targets: the loop over nodes(), r = [targets, warnings]
RECURSIVE TargetLoop(_, _, _, _)
TargetLoop(G, ns, threshold, r) ==
    IF ns = <<>> THEN r
    ELSE LET node == Head(ns)
             avoiders == Predecessors(G, node)
             r1 == IF MeetsThreshold(Len(avoiders), threshold)
                   THEN [pattern |-> Put(r.pattern, node, avoiders),
                         warnings |-> Append(r.warnings,
                             Warning("target_" \o node, "AVOIDANCE_TARGET", <<node>>,
                                     [student |-> node, avoiders |-> avoiders,
                                      count |-> Len(avoiders)]))]
                   ELSE r
         IN  TargetLoop(G, Tail(ns), threshold, r1)

FindAvoidanceTargets(G, ws, threshold) ==
    TargetLoop(G, G.nodes, threshold, [pattern |-> <<>>, warnings |-> ws])

\* _find_avoidance_initiators
RECURSIVE InitiatorLoop(_, _, _, _)
InitiatorLoop(G, ns, threshold, r) ==
    IF ns = <<>> THEN r
    ELSE LET node == Head(ns)
             avoided == Successors(G, node)
             r1 == IF MeetsThreshold(Len(avoided), threshold)
                   THEN [pattern |-> Put(r.pattern, node, avoided),
                         warnings |-> Append(r.warnings,
                             Warning("initiator_" \o node, "AVOIDANCE_INITIATOR", <<node>>,
                                     [student |-> node, avoided |-> avoided,
                                      count |-> Len(avoided)]))]
                   ELSE r
         IN  InitiatorLoop(G, Tail(ns), threshold, r1)

FindAvoidanceInitiators(G, ws, threshold) ==
    InitiatorLoop(G, G.nodes, threshold, [pattern |-> <<>>, warnings |-> ws])

\* positive_in of lines 241-247: in-degrees summed over the layers holding node
RECURSIVE PositiveIn(_, _, _)
PositiveIn(pos, keys, node) ==
    IF keys = {} THEN 0
    ELSE LET k == CHOOSE x \in keys : TRUE
         IN  (IF HasNode(pos[k], node) THEN InDegree(pos[k], node) ELSE 0)
                 + PositiveIn(pos, keys \ {k}, node)

\* mutant: two positive nominations already count as connected
FewPositiveButAvoided_Below(positive_in, avoidance_in) ==
    positive_in < 2 /\ avoidance_in > 0

\* the test of line 250
FewPositiveButAvoided(positive_in, avoidance_in) ==
    positive_in <= 2 /\ avoidance_in > 0

\* _find_isolated_with_avoidance: the loop over nodes()
RECURSIVE IsolatedLoop(_, _, _, _)
IsolatedLoop(G, pos, ns, r) ==
    IF ns = <<>> THEN r
    ELSE LET node == Head(ns)
             avoidance_in == InDegree(G, node)
             avoidance_out == OutDegree(G, node)
             positive_in == PositiveIn(pos, DOMAIN pos, node)
             r1 == IF avoidance_in = 0 /\ avoidance_out = 0 THEN r
                   ELSE IF FewPositiveButAvoided(positive_in, avoidance_in)
                   THEN [pattern |-> Append(r.pattern, node),
                         warnings |-> Append(r.warnings,
                             Warning("isolated_" \o node, "ISOLATED_WITH_AVOIDANCE", <<node>>,
                                     [student |-> node, positive_in |-> positive_in,
                                      avoidance_in |-> avoidance_in]))]
                   ELSE r
         IN  IsolatedLoop(G, pos, Tail(ns), r1)

FindIsolatedWithAvoidance(G, pos, ws) ==
    IF DOMAIN pos = {} THEN [pattern |-> <<>>, warnings |-> ws]
    ELSE IsolatedLoop(G, pos, G.nodes, [pattern |-> <<>>, warnings |-> ws])

\* to_undirected().number_of_edges(): unordered pairs joined either way
UndirectedEdges(G) == {{e[1], e[2]} : e \in EdgeSet(G)}

\* the weight to_undirected() leaves between u and v: add_edges_from visits
\* the directed edges source by source in node order and each visit overwrites
\* the edge data, so of two opposite edges the one leaving the later node wins
UndirectedWeight(G, u, v) ==
    IF ~HasEdge(G, u, v) THEN G.weight[<<v, u>>]
    ELSE IF ~HasEdge(G, v, u) THEN G.weight[<<u, v>>]
    ELSE IF \E i \in 1..Len(G.nodes) : \E j \in 1..Len(G.nodes) :
                i < j /\ G.nodes[i] = u /\ G.nodes[j] = v
         THEN G.weight[<<v, u>>]
         ELSE G.weight[<<u, v>>]

\* the summed weight of a set of undirected edges
RECURSIVE WeightOf(_, _)
WeightOf(G, pairs) ==
    IF pairs = {} THEN 0
    ELSE LET p == CHOOSE q \in pairs : TRUE
             u == CHOOSE x \in p : TRUE
             v == CHOOSE y \in p : p = {u, y}
         IN  UndirectedWeight(G, u, v) + WeightOf(G, pairs \ {p})

\* the modularity python-louvain maximises, scaled by 4m^2 to stay integral:
\* per community in/m - (deg/2m)^2, in = weight inside the community (a
\* self-loop once), deg = summed weighted degree (a self-loop twice)
RECURSIVE LouvainModularity(_, _, _)
LouvainModularity(G, communities, ids) ==
    IF ids = {} THEN 0
    ELSE LET c == CHOOSE x \in ids : TRUE
             members == {n \in Nodes(G) : communities[n] = c}
             E == UndirectedEdges(G)
             m == WeightOf(G, E)
             inside == WeightOf(G, {p \in E : p \subseteq members})
             cut == WeightOf(G, {p \in E : p \cap members # {} /\ ~(p \subseteq members)})
         IN  (4 * m * inside - (2 * inside + cut) * (2 * inside + cut))
                 + LouvainModularity(G, communities, ids \ {c})

\* mutant: any labelling may come back
ImprovesOnSingletons_Any(G, communities) == TRUE

\* best_partition starts from every node on its own and only ever moves a
\* node, or merges communities, for a strictly positive modularity gain
ImprovesOnSingletons(G, communities) ==
    LouvainModularity(G, communities, {communities[n] : n \in Nodes(G)})
        >= LouvainModularity(G, [n \in Nodes(G) |-> n], Nodes(G))

\* what community_louvain.best_partition may hand back for G: a map from every
\* node to a community id, the ids in use being 0..k-1, of a modularity no
\* lower than that of the partition it starts from
Partitions(G) ==
    {f \in [Nodes(G) -> 0..(MaxCommunities - 1)] :
        /\ \E k \in 1..MaxCommunities : {f[n] : n \in Nodes(G)} = 0..(k - 1)
        /\ ImprovesOnSingletons(G, f)}

\* community_groups: the community ids in order of first appearance along the
\* nodes, and the members of one community in node order
CommunityOrder(G, communities) ==
    LET ids == [i \in 1..Len(G.nodes) |-> communities[G.nodes[i]]]
    IN  SelectSeq([i \in 1..Len(ids) |->
                      IF \E j \in 1..(i - 1) : ids[j] = ids[i] THEN -1 ELSE ids[i]],
                  LAMBDA c : c >= 0)

CommunityGroup(G, communities, c) == SelectSeq(G.nodes, LAMBDA n : communities[n] = c)

\* lines 302-308
CrossEdges(G, group1, group2) ==
    Cardinality({e \in Range(group1) \X Range(group2) : HasEdge(G, e[1], e[2])})
        + Cardinality({e \in Range(group1) \X Range(group2) : HasEdge(G, e[2], e[1])})

\* the two loops over community_groups (lines 297-333), pairs in loop order
RECURSIVE ClusterLoop(_, _, _, _, _)
ClusterLoop(G, communities, order, k, r) ==
    IF k > Len(order) * Len(order) THEN r
    ELSE LET comm1 == order[((k - 1) \div Len(order)) + 1]
             comm2 == order[((k - 1) % Len(order)) + 1]
             group1 == CommunityGroup(G, communities, comm1)
             group2 == CommunityGroup(G, communities, comm2)
             cross_edges == CrossEdges(G, group1, group2)
             r1 == IF comm1 >= comm2 THEN r
                   ELSE IF cross_edges >= 3
                   THEN [pattern |-> Append(r.pattern,
                             [group1 |-> group1, group2 |-> group2,
                              cross_edges |-> cross_edges]),
                         warnings |-> Append(r.warnings,
                             Warning("cluster_" \o ToString(comm1) \o "_" \o ToString(comm2),
                                     "AVOIDANCE_CLUSTER", group1 \o group2,
                                     [group1 |-> group1, group2 |-> group2,
                                      cross_edges |-> cross_edges]))]
                   ELSE r
         IN  ClusterLoop(G, communities, order, k + 1, r1)

\* does _detect_avoidance_clusters reach best_partition at all (lines 277-286)
ReachesPartition(G) ==
    NumberOfEdges(G) >= 3 /\ Cardinality(UndirectedEdges(G)) # 0

\* mutant: a failed community detection takes the earlier warnings with it
DetectAvoidanceClusters_LosesWarnings(G, ws, partition) ==
    IF partition = None THEN [pattern |-> <<>>, warnings |-> <<>>]
    ELSE IF ~ReachesPartition(G) THEN [pattern |-> <<>>, warnings |-> ws]
    ELSE LET communities == partition[1]
             order == CommunityOrder(G, communities)
         IN  IF Len(order) >= 2
             THEN ClusterLoop(G, communities, order, 1, [pattern |-> <<>>, warnings |-> ws])
             ELSE [pattern |-> <<>>, warnings |-> ws]

\* _detect_avoidance_clusters; partition is None when community detection
\* raised (the except clause), else Some(communities)
DetectAvoidanceClusters(G, ws, partition) ==
    IF ~ReachesPartition(G) \/ partition = None
    THEN [pattern |-> <<>>, warnings |-> ws]
    ELSE LET communities == partition[1]
             order == CommunityOrder(G, communities)
         IN  IF Len(order) >= 2
             THEN ClusterLoop(G, communities, order, 1, [pattern |-> <<>>, warnings |-> ws])
             ELSE [pattern |-> <<>>, warnings |-> ws]

\* mutant: nobody counts as already warned
WarnedStudents_Nobody(ws) == {}

\* warned_students of lines 345-347
RECURSIVE WarnedStudents(_)
WarnedStudents(ws) ==
    IF ws = <<>> THEN {} ELSE Range(Head(ws).students) \cup WarnedStudents(Tail(ws))

\* mutant: the fifth leftover is already one too many
WithinCap_Below(n) == n < 5

\* len(one_way) <= 5 (line 360)
WithinCap(n) == n <= 5

\* _find_remaining_one_way: the loop over edges(), r = [pattern, warnings]
RECURSIVE OneWayLoop(_, _, _, _)
OneWayLoop(G, es, warned_students, r) ==
    IF es = <<>> THEN r
    ELSE LET u == Head(es)[1]
             v == Head(es)[2]
             one_way == Append(r.pattern, <<u, v>>)
             r1 == IF HasEdge(G, v, u) THEN r
                   ELSE IF u \in warned_students \/ v \in warned_students THEN r
                   ELSE IF WithinCap(Len(one_way))
                   THEN [pattern |-> one_way,
                         warnings |-> Append(r.warnings,
                             Warning("oneway_" \o u \o "_" \o v, "ONE_WAY_AVOIDANCE",
                                     <<u, v>>, [student_a |-> u, student_b |-> v]))]
                   ELSE [pattern |-> one_way, warnings |-> r.warnings]
         IN  OneWayLoop(G, Tail(es), warned_students, r1)

FindRemainingOneWay(G, ws) ==
    OneWayLoop(G, Edges(G), WarnedStudents(ws), [pattern |-> <<>>, warnings |-> ws])

Priority(w) == WARNING_LEVELS[w.level].priority

\* mutant: an unstable sort, a warning goes before its equals
RECURSIVE InsertByPriority_BeforeEquals(_, _)
InsertByPriority_BeforeEquals(sorted, w) ==
    IF sorted = <<>> THEN <<w>>
    ELSE IF Priority(sorted[Len(sorted)]) < Priority(w) THEN Append(sorted, w)
    ELSE Append(InsertByPriority_BeforeEquals(SubSeq(sorted, 1, Len(sorted) - 1), w),
                sorted[Len(sorted)])

\* list.sort(key=priority): a stable sort, here by insertion
RECURSIVE InsertByPriority(_, _)
InsertByPriority(sorted, w) ==
    IF sorted = <<>> THEN <<w>>
    ELSE IF Priority(sorted[Len(sorted)]) <= Priority(w) THEN Append(sorted, w)
    ELSE Append(InsertByPriority(SubSeq(sorted, 1, Len(sorted) - 1), w),
                sorted[Len(sorted)])

RECURSIVE SortWarnings(_)
SortWarnings(ws) ==
    IF ws = <<>> THEN <<>>
    ELSE InsertByPriority(SortWarnings(SubSeq(ws, 1, Len(ws) - 1)), ws[Len(ws)])

CountWhere(ws, P(_)) == Len(SelectSeq(ws, P))

\* mutant: HIGH warnings alone never make the class MODERATE
CalculateOverallRisk_CriticalOnly(critical, high) ==
    IF critical >= 2 THEN "HIGH"
    ELSE IF critical >= 1 THEN "MODERATE"
    ELSE IF high >= 1 THEN "LOW"
    ELSE "NONE"

\* _calculate_overall_risk
CalculateOverallRisk(critical, high) ==
    IF critical >= 2 THEN "HIGH"
    ELSE IF critical >= 1 \/ high >= 3 THEN "MODERATE"
    ELSE IF high >= 1 THEN "LOW"
    ELSE "NONE"

\* mutant: only CRITICAL warnings ask for attention
RequiresAttention_CriticalOnly(critical, high) == critical > 0

\* requires_attention of line 393
RequiresAttention(critical, high) == critical + high > 0

\* _generate_summary
GenerateSummary(G, ws) ==
    LET level_counts == [l \in DOMAIN WARNING_LEVELS |-> CountWhere(ws, LAMBDA w : w.level = l)]
        types == {ws[i].type : i \in 1..Len(ws)}
    IN  [total_warnings |-> Len(ws),
         critical_count |-> level_counts["CRITICAL"],
         high_count |-> level_counts["HIGH"],
         moderate_count |-> level_counts["MODERATE"],
         low_count |-> level_counts["LOW"],
         type_counts |-> [t \in types |-> CountWhere(ws, LAMBDA w : w.type = t)],
         total_avoidance_edges |-> NumberOfEdges(G),
         students_with_avoidance |->
             Cardinality({n \in Nodes(G) : InDegree(G, n) > 0 \/ OutDegree(G, n) > 0}),
         requires_attention |->
             RequiresAttention(level_counts["CRITICAL"], level_counts["HIGH"]),
         overall_risk |-> CalculateOverallRisk(level_counts["CRITICAL"], level_counts["HIGH"])]

\* analyze(): the detectors in source order on an emptied warning list, the
\* sort, the summary
RunAnalyze(G, pos, partition) ==
    LET mutual     == FindMutualAvoidance(G, <<>>)
        targets    == FindAvoidanceTargets(G, mutual.warnings, 2)
        initiators == FindAvoidanceInitiators(G, targets.warnings, 2)
        isolated   == FindIsolatedWithAvoidance(G, pos, initiators.warnings)
        clusters   == DetectAvoidanceClusters(G, isolated.warnings, partition)
        one_way    == FindRemainingOneWay(G, clusters.warnings)
        sorted     == SortWarnings(one_way.warnings)
    IN  [warnings |-> sorted,
         found    |-> one_way.warnings,
         patterns |-> [mutual_avoidance        |-> mutual.pattern,
                       avoidance_targets       |-> targets.pattern,
                       avoidance_initiators    |-> initiators.pattern,
                       isolated_with_avoidance |-> isolated.pattern,
                       avoidance_clusters      |-> clusters.pattern,
                       one_way_avoidance       |-> one_way.pattern],
         summary  |-> GenerateSummary(G, sorted)]

\* the dict analyze() returns (analyzed_at left out)
AnalysisResult(r) == [warnings |-> r.warnings, patterns |-> r.patterns, summary |-> r.summary]

NoWarningSystem ==
    /\ avoidance_graph = None
    /\ positive_layers = <<>>
    /\ warnings = <<>>
    /\ result = None

\* AvoidanceWarningSystem(avoidance_graph, positive_layers) as the classroom
\* service constructs it from built layers (classroom_analyzer.py 338-346, 401-415)
ConstructWarningSystem ==
    /\ status = "built"
    /\ NumberOfNodes(layers["avoidance"]) > 0
    /\ NumberOfEdges(layers["avoidance"]) > 0
    /\ avoidance_graph' = Some(layers["avoidance"])
    /\ positive_layers' = [k \in DOMAIN layers \ {"avoidance"} |-> layers[k]]
    /\ warnings' = <<>>
    /\ result' = None
    /\ UNCHANGED ml_vars
    /\ UNCHANGED me_vars
    /\ UNCHANGED ca_vars

\* warning_system.analyze()
Analyze ==
    /\ avoidance_graph # None
    /\ LET G == avoidance_graph[1]
       IN  \E partition \in (IF ReachesPartition(G)
                             THEN {None} \cup {Some(f) : f \in Partitions(G)}
                             ELSE {None}) :
              LET r == RunAnalyze(G, positive_layers, partition)
              IN  /\ warnings' = r.warnings
                  /\ result' = Some(AnalysisResult(r))
    /\ UNCHANGED <<avoidance_graph, positive_layers>>
    /\ UNCHANGED ml_vars
    /\ UNCHANGED me_vars
    /\ UNCHANGED ca_vars

Init == InitAnalyzer /\ NoWarningSystem

Next ==
    \/ BuildLayers /\ UNCHANGED aws_vars /\ UNCHANGED me_vars /\ UNCHANGED ca_vars
    \/ ConstructWarningSystem
    \/ Analyze

Spec == Init /\ [][Next]_vars

\* ------------------------- the warning system on graphs handed in directly
\* the edge slots of a roster of n nodes: the n(n-1) edges between two
\* individuals row by row, then the n self-loops build_layers lets through
EdgeSlot(names, k) ==
    LET n == Len(names)
        row == ((k - 1) \div (n - 1)) + 1
        col == ((k - 1) % (n - 1)) + 1
    IN  IF k > n * (n - 1) THEN <<names[k - n * (n - 1)], names[k - n * (n - 1)]>>
        ELSE <<names[row], names[IF col < row THEN col ELSE col + 1]>>

RECURSIVE GraphOfSlots(_, _, _)
GraphOfSlots(G, names, slots) ==
    IF slots = <<>> THEN G
    ELSE GraphOfSlots(AddEdge(G, EdgeSlot(names, Head(slots))[1],
                              EdgeSlot(names, Head(slots))[2], 1),
                      names, Tail(slots))

\* a layer over the roster `names` with the edges of the given slots, added in
\* slot order
LayerOf(names, slots) == GraphOfSlots(RosterGraph(EmptyGraph, names), names, slots)

\* strictly increasing slot lists of at most MaxAvoidEdges edges
SlotLists(n) ==
    {s \in SeqsUpTo(1..(n * n), MaxAvoidEdges) :
        \A i \in 1..(Len(s) - 1) : s[i] < s[i + 1]}

\* the six positive layers over `names`, the first c of them holding the edge
\* from the first to the last roster member
PositiveLayersOf(names, c) ==
    [t \in PositiveTypes |->
        IF \E i \in 1..c : RelTypeOrder[i] = t
        THEN AddEdge(LayerOf(names, <<>>), names[1], names[Len(names)], 1)
        ELSE LayerOf(names, <<>>)]

InitWarningSystem ==
    /\ students = Roster(MaxAvoidNodes)
    /\ responses = <<>>
    /\ layers = <<>>
    /\ combined_graph = None
    /\ status = "new"
    /\ layer_metrics = <<>>
    /\ cross_layer_metrics = <<>>
    /\ nx_calls = <<>>
    /\ returned = None
    /\ NoClassroomAnalyzer
    /\ \E s \in SlotLists(MaxAvoidNodes) :
          avoidance_graph = Some(LayerOf(AllNodes(Roster(MaxAvoidNodes)), s))
    /\ \/ positive_layers = <<>>
       \/ \E c \in 0..MaxPositiveIn :
             positive_layers = PositiveLayersOf(AllNodes(Roster(MaxAvoidNodes)), c)
    /\ warnings = <<>>
    /\ result = None

NextWarningSystem == Analyze

SpecAWS == InitWarningSystem /\ [][NextWarningSystem]_vars

\* ------------------------ the warning system on names that hold an underscore
\* display names are free text (Student.name); these four are pairwise different
UnderscoreNames == <<"A", "B_C", "A_B", "C">>

InitNames ==
    /\ students = [i \in 1..Len(UnderscoreNames) |-> [id |-> i, name |-> UnderscoreNames[i]]]
    /\ responses = <<>>
    /\ layers = <<>>
    /\ combined_graph = None
    /\ status = "new"
    /\ layer_metrics = <<>>
    /\ cross_layer_metrics = <<>>
    /\ nx_calls = <<>>
    /\ returned = None
    /\ NoClassroomAnalyzer
    /\ \E s \in SlotLists(Len(UnderscoreNames)) :
          avoidance_graph = Some(LayerOf(UnderscoreNames, s))
    /\ \/ positive_layers = <<>>
       \/ positive_layers = PositiveLayersOf(UnderscoreNames, 0)
    /\ warnings = <<>>
    /\ result = None

NextNames == Analyze

SpecNames == InitNames /\ [][NextNames]_vars

\* ----------------------------- the warning system on long chains of avoidance
\* edge k of the ring over `names`: from member k to the next one, from the
\* last back to the first
RingEdge(names, k) == <<names[k], names[(k % Len(names)) + 1]>>

\* the layer over the roster `names` that build_layers leaves after adding the
\* distinct edges es in this order, each named once
LayerOfEdges(names, es) ==
    [nodes  |-> names,
     succ   |-> [n \in Range(names) |->
                   LET out == SelectSeq(es, LAMBDA e : e[1] = n)
                   IN  [i \in 1..Len(out) |-> out[i][2]]],
     pred   |-> [n \in Range(names) |->
                   LET in == SelectSeq(es, LAMBDA e : e[2] = n)
                   IN  [i \in 1..Len(in) |-> in[i][1]]],
     weight |-> [e \in Range(es) |-> 1]]

\* the avoidance layer holding the first k edges of the ring, then the extras
RingLayer(names, k, extras) ==
    LayerOfEdges(names, [i \in 1..k |-> RingEdge(names, i)] \o extras)

\* edges next to the ring: the reverse of its first edge (a mutual pair) and a
\* second edge out of its first member (an initiator, and a target)
RingExtras(names) ==
    {<<>>, <<<<names[2], names[1]>>>>, <<<<names[1], names[3]>>>>,
     <<<<names[2], names[1]>>, <<names[1], names[3]>>>>}

InitRing ==
    /\ students = Roster(MaxRingNodes)
    /\ responses = <<>>
    /\ layers = <<>>
    /\ combined_graph = None
    /\ status = "new"
    /\ layer_metrics = <<>>
    /\ cross_layer_metrics = <<>>
    /\ nx_calls = <<>>
    /\ returned = None
    /\ NoClassroomAnalyzer
    /\ \E k \in (MaxRingNodes - 2)..MaxRingNodes : \E extras \in RingExtras(AllNodes(Roster(MaxRingNodes))) :
          avoidance_graph = Some(RingLayer(AllNodes(Roster(MaxRingNodes)), k, extras))
    /\ \/ positive_layers = <<>>
       \/ positive_layers = PositiveLayersOf(AllNodes(Roster(MaxRingNodes)), MaxPositiveIn)
    /\ warnings = <<>>
    /\ result = None

NextRing == Analyze

SpecRing == InitRing /\ [][NextRing]_vars

\* ------------------------------------------------------------ metrics engine
\* a float, kept as the exact fraction num / den
Fraction(num, den) == [num |-> num, den |-> den]

Zero == Fraction(0, 1)

\* nx.in_degree_centrality(G), nx.out_degree_centrality(G)
InDegreeCentrality(G) ==
    [n \in Nodes(G) |->
        IF NumberOfNodes(G) <= 1 THEN Fraction(1, 1)
        ELSE Fraction(InDegree(G, n), NumberOfNodes(G) - 1)]

OutDegreeCentrality(G) ==
    [n \in Nodes(G) |->
        IF NumberOfNodes(G) <= 1 THEN Fraction(1, 1)
        ELSE Fraction(OutDegree(G, n), NumberOfNodes(G) - 1)]

\* _calculate_basic_metrics: the two degree centralities (the path-based and
\* spectral centralities are not carried)
CalculateBasicMetrics(G) ==
    [in_degree_centrality  |-> InDegreeCentrality(G),
     out_degree_centrality |-> OutDegreeCentrality(G)]

\* nx.reciprocity(G): twice the edges lost in the undirected projection, over
\* the directed edges; raises on a graph without edges
OverallReciprocity(G) ==
    IF NumberOfEdges(G) = 0 THEN [raised |-> TRUE, value |-> Zero]
    ELSE [raised |-> FALSE,
          value |-> Fraction((NumberOfEdges(G) - Cardinality(UndirectedEdges(G))) * 2,
                             NumberOfEdges(G))]

\* the loop of lines 306-311, r = [mutual_edges, one_way_edges]
RECURSIVE ReciprocityLoop(_, _, _)
ReciprocityLoop(G, es, r) ==
    IF es = <<>> THEN r
    ELSE LET u == Head(es)[1]
             v == Head(es)[2]
             r1 == IF HasEdge(G, v, u)
                   THEN IF <<v, u>> \notin Range(r.mutual_edges)
                        THEN [r EXCEPT !.mutual_edges = Append(@, <<u, v>>)]
                        ELSE r
                   ELSE [r EXCEPT !.one_way_edges = Append(@, <<u, v>>)]
         IN  ReciprocityLoop(G, Tail(es), r1)

\* _calculate_reciprocity: when nx.reciprocity raises, the except clause
\* leaves the initial result
CalculateReciprocity(G) ==
    LET overall == OverallReciprocity(G)
    IN  IF overall.raised
        THEN [overall |-> Zero, mutual_edges |-> <<>>, one_way_edges |-> <<>>]
        ELSE LET r == ReciprocityLoop(G, Edges(G),
                                      [mutual_edges |-> <<>>, one_way_edges |-> <<>>])
             IN  [overall |-> overall.value,
                  mutual_edges |-> r.mutual_edges,
                  one_way_edges |-> r.one_way_edges]

\* mutant: a node is paired with itself as well
DyadPairs_WithSelf(n) == {p \in (1..n) \X (1..n) : p[1] <= p[2]}

\* the index pairs (i, j) of the two loops of lines 327-328
DyadPairs(n) == {p \in (1..n) \X (1..n) : p[1] < p[2]}

\* _dyad_census
DyadCensus(G) ==
    LET nodes == G.nodes
        n == Len(nodes)
        has_uv(p) == HasEdge(G, nodes[p[1]], nodes[p[2]])
        has_vu(p) == HasEdge(G, nodes[p[2]], nodes[p[1]])
    IN  [mutual     |-> Cardinality({p \in DyadPairs(n) : has_uv(p) /\ has_vu(p)}),
         asymmetric |-> Cardinality({p \in DyadPairs(n) :
                                        ~(has_uv(p) /\ has_vu(p)) /\ (has_uv(p) \/ has_vu(p))}),
         null       |-> Cardinality({p \in DyadPairs(n) : ~has_uv(p) /\ ~has_vu(p)}),
         total_possible |-> IF n > 1 THEN (n * (n - 1)) \div 2 ELSE 0]

\* nx.density(G) of a directed graph
Density(G) ==
    IF NumberOfEdges(G) = 0 \/ NumberOfNodes(G) <= 1 THEN Zero
    ELSE Fraction(NumberOfEdges(G), NumberOfNodes(G) * (NumberOfNodes(G) - 1))

\* _calculate_advanced_metrics: reciprocity, dyad census and density (the
\* clustering, clique, component and community metrics are not carried)
CalculateAdvancedMetrics(G) ==
    [reciprocity |-> CalculateReciprocity(G),
     dyad_census |-> DyadCensus(G),
     density     |-> Density(G)]

\* _generate_layer_summary; 'combined' is no relationship type, its config is {}
GenerateLayerSummary(G, layer_type) ==
    [layer_type  |-> layer_type,
     positive    |-> IF layer_type \in RelTypes
                     THEN RELATIONSHIP_TYPES[layer_type].positive ELSE TRUE,
     nodes_count |-> NumberOfNodes(G),
     edges_count |-> NumberOfEdges(G),
     density     |-> IF NumberOfNodes(G) > 0 THEN Density(G) ELSE Zero,
     avg_in_degree  |-> IF NumberOfNodes(G) > 0
                        THEN Fraction(NumberOfEdges(G), NumberOfNodes(G)) ELSE Zero,
     avg_out_degree |-> IF NumberOfNodes(G) > 0
                        THEN Fraction(NumberOfEdges(G), NumberOfNodes(G)) ELSE Zero]

\* sorted(items, key=count, reverse=True): a stable sort, here by insertion
RECURSIVE InsertByCount(_, _)
InsertByCount(sorted, item) ==
    IF sorted = <<>> THEN <<item>>
    ELSE IF sorted[Len(sorted)].count >= item.count THEN Append(sorted, item)
    ELSE Append(InsertByCount(SubSeq(sorted, 1, Len(sorted) - 1), item),
                sorted[Len(sorted)])

RECURSIVE SortByCount(_)
SortByCount(items) ==
    IF items = <<>> THEN <<>>
    ELSE InsertByCount(SortByCount(SubSeq(items, 1, Len(items) - 1)), items[Len(items)])

\* [... for name, count in sorted_items[:5] if count > 0]
TopFive(items) ==
    SelectSeq(SubSeq(SortByCount(items), 1, IF Len(items) < 5 THEN Len(items) ELSE 5),
              LAMBDA x : x.count > 0)

\* _identify_top_students
IdentifyTopStudents(G, layer_type) ==
    IF NumberOfEdges(G) = 0 THEN <<>>
    ELSE LET most_chosen ==
                 TopFive([i \in 1..Len(G.nodes) |->
                             [name |-> G.nodes[i], count |-> InDegree(G, G.nodes[i])]])
             most_active ==
                 TopFive([i \in 1..Len(G.nodes) |->
                             [name |-> G.nodes[i], count |-> OutDegree(G, G.nodes[i])]])
             special == CASE layer_type = "leaders" -> {"perceived_leaders"}
                          [] layer_type = "helpers" -> {"key_helpers"}
                          [] layer_type = "trust"   -> {"trusted_students"}
                          [] OTHER -> {}
             isolated == SelectSeq(G.nodes, LAMBDA name : InDegree(G, name) = 0)
         IN  [k \in {"most_chosen", "most_active", "isolated"} \cup special |->
                 CASE k = "most_active" -> most_active
                   [] k = "isolated" -> isolated
                   [] OTHER -> most_chosen]

\* _empty_metrics
EmptyMetrics ==
    [basic |-> [in_degree_centrality   |-> <<>>,
                out_degree_centrality  |-> <<>>,
                betweenness_centrality |-> <<>>,
                closeness_centrality   |-> <<>>,
                eigenvector_centrality |-> <<>>,
                pagerank               |-> <<>>],
     advanced |-> [reciprocity |-> [overall |-> Zero, mutual_edges |-> <<>>,
                                    one_way_edges |-> <<>>],
                   transitivity       |-> Zero,
                   average_clustering |-> Zero,
                   density            |-> Zero,
                   communities        |-> <<>>,
                   num_communities    |-> 0],
     summary |-> <<>>,
     top_students |-> <<>>]

\* the networkx algorithms a pass over a graph starts with: the first call of
\* _calculate_basic_metrics, of _calculate_advanced_metrics and of
\* _generate_layer_summary
FirstAlgorithms == {"in_degree_centrality", "reciprocity", "density"}

\* mutant: only a graph without nodes is short-circuited
IsDegenerate_NoNodes(G) == NumberOfNodes(G) = 0

\* G.number_of_edges() == 0 (line 188)
IsDegenerate(G) == NumberOfEdges(G) = 0

\* _analyze_single_layer, with the library algorithms it ran
AnalyzeSingleLayer(G, layer_type) ==
    IF IsDegenerate(G) THEN [metrics |-> EmptyMetrics, calls |-> {}]
    ELSE [metrics |-> [basic        |-> CalculateBasicMetrics(G),
                       advanced     |-> CalculateAdvancedMetrics(G),
                       summary      |-> GenerateLayerSummary(G, layer_type),
                       top_students |-> IdentifyTopStudents(G, layer_type)],
          calls |-> FirstAlgorithms]

\* mutant: the avoidance layer counts as positive
PositiveLayerKeys_All(lays) == LayerKeys(lays)

\* the positive layers of self.layers, in dict order (lines 419-422)
PositiveLayerKeys(lays) == SelectSeq(LayerKeys(lays), LAMBDA t : IsPositive(t))

\* the pairs of positive layers that get an entry (lines 424-429): the second
\* after the first, one of the two edge sets non-empty
CorrelatedPairs(lays) ==
    LET pos == PositiveLayerKeys(lays)
    IN  {p \in (1..Len(pos)) \X (1..Len(pos)) :
            /\ p[1] < p[2]
            /\ EdgeSet(lays[pos[p[1]]]) \cup EdgeSet(lays[pos[p[2]]]) # {}}

\* f"{name1}-{name2}"
PairKey(name1, name2) == name1 \o "-" \o name2

\* the entry of lines 430-437
LayerCorrelation(G1, G2) ==
    LET intersection == Cardinality(EdgeSet(G1) \cap EdgeSet(G2))
        union == Cardinality(EdgeSet(G1) \cup EdgeSet(G2))
    IN  [jaccard |-> IF union > 0 THEN Fraction(intersection, union) ELSE Zero,
         overlap_count |-> intersection]

\* the roster members reached by the loop of lines 440-447 before a layer
\* without the node makes in_degree raise
MultiplexNodes(lays, names) ==
    LET pos == Range(PositiveLayerKeys(lays))
        bad == {i \in 1..Len(names) : \E t \in pos : ~HasNode(lays[t], names[i])}
    IN  {names[i] : i \in {j \in 1..Len(names) : \A b \in bad : j < b}}

\* _calculate_cross_layer_metrics
CalculateCrossLayerMetrics(lays, studs) ==
    LET pos == PositiveLayerKeys(lays)
        pairs == CorrelatedPairs(lays)
    IN  [layer_correlation |->
             [k \in {PairKey(pos[p[1]], pos[p[2]]) : p \in pairs} |->
                 LET p == CHOOSE q \in pairs : PairKey(pos[q[1]], pos[q[2]]) = k
                 IN  LayerCorrelation(lays[pos[p[1]]], lays[pos[p[2]]])],
         role_consistency |-> <<>>,
         multiplex_degree |->
             [node \in MultiplexNodes(lays, AllNodes(studs)) |->
                 Cardinality({t \in Range(pos) :
                     InDegree(lays[t], node) > 0 \/ OutDegree(lays[t], node) > 0})]]

\* the loop of lines 172-173, m = [layer_metrics, nx_calls]
RECURSIVE AnalyzeLayersFrom(_, _, _)
AnalyzeLayersFrom(m, lays, keys) ==
    IF keys = <<>> THEN m
    ELSE LET r == AnalyzeSingleLayer(lays[Head(keys)], Head(keys))
         IN  AnalyzeLayersFrom([layer_metrics |-> Put(m.layer_metrics, Head(keys), r.metrics),
                                nx_calls |-> Put(m.nx_calls, Head(keys), r.calls)],
                               lays, Tail(keys))

\* `if self.combined_graph:` a graph is truthy when it has a node
Truthy(graph) == graph # None /\ NumberOfNodes(graph[1]) > 0

\* lines 172-179: every layer, then the combined graph
AnalyzeGraphs(m, lays, combined) ==
    LET m1 == AnalyzeLayersFrom(m, lays, LayerKeys(lays))
    IN  IF Truthy(combined)
        THEN LET r == AnalyzeSingleLayer(combined[1], "combined")
             IN  [layer_metrics |-> Put(m1.layer_metrics, "combined", r.metrics),
                  nx_calls |-> Put(m1.nx_calls, "combined", r.calls)]
        ELSE m1

\* analyze_all_layers(): builds the layers first when there are none; a raise
\* of build_layers leaves through analyze_all_layers
AnalyzeAllLayers ==
    LET need == layers = <<>>
        b == IF need THEN BuildLayersFrom(1, layers, students, responses)
             ELSE [raised |-> FALSE, layers |-> layers]
        combined == IF need /\ ~b.raised
                    THEN Some(BuildCombinedGraph(students, b.layers))
                    ELSE combined_graph
        m == AnalyzeGraphs([layer_metrics |-> layer_metrics, nx_calls |-> nx_calls],
                           b.layers, combined)
    IN  /\ layers' = b.layers
        /\ combined_graph' = combined
        /\ status' = IF ~need THEN status ELSE IF b.raised THEN "raised" ELSE "built"
        /\ layer_metrics' = IF b.raised THEN layer_metrics ELSE m.layer_metrics
        /\ nx_calls' = IF b.raised THEN nx_calls ELSE m.nx_calls
        /\ cross_layer_metrics' = IF b.raised THEN cross_layer_metrics
                                  ELSE CalculateCrossLayerMetrics(b.layers, students)
        /\ UNCHANGED <<students, responses, returned>>
        /\ UNCHANGED ca_vars
        /\ UNCHANGED aws_vars

\* what a query method or a service entry point hands back, or that it raised
Returned(op, arg, value) == [op |-> op, arg |-> arg, raised |-> FALSE, value |-> value]

Raised(op, arg) == [op |-> op, arg |-> arg, raised |-> TRUE, value |-> <<>>]

\* self._dyad_census(G) on one of the analyzer's graphs
CallDyadCensus ==
    /\ \E key \in DOMAIN layers \cap {"friends", "avoidance"} :
          returned' = Some(Returned("_dyad_census", key, DyadCensus(layers[key])))
    /\ UNCHANGED <<layer_metrics, cross_layer_metrics, nx_calls>>
    /\ UNCHANGED ca_vars
    /\ UNCHANGED ml_vars
    /\ UNCHANGED aws_vars

\* mutant: the entry is filed in self.layers instead of the profile
StoreProfileLayer_InLayers(obj, rel_type, entry) ==
    [obj EXCEPT !.layers = Put(@, rel_type, entry)]

\* profile['layers'][rel_type] = {...} (line 527); obj = [layers, profile_layers]
StoreProfileLayer(obj, rel_type, entry) ==
    [obj EXCEPT !.profile_layers = Put(@, rel_type, entry)]

\* self.name_to_id
NameToId(studs) ==
    [nm \in {studs[k].name : k \in 1..Len(studs)} |->
        studs[CHOOSE k \in 1..Len(studs) : studs[k].name = nm].id]

\* the loop of lines 516-535 over the items of self.layers
RECURSIVE ProfileLoop(_, _, _, _)
ProfileLoop(obj, lays, keys, student_name) ==
    IF keys = <<>> THEN obj
    ELSE LET rel_type == Head(keys)
             G == lays[rel_type]
             entry == [positive       |-> RELATIONSHIP_TYPES[rel_type].positive,
                       received_count |-> InDegree(G, student_name),
                       given_count    |-> OutDegree(G, student_name),
                       chosen_by      |-> Predecessors(G, student_name),
                       chose          |-> Successors(G, student_name)]
         IN  ProfileLoop(StoreProfileLayer(obj, rel_type, entry), lays, Tail(keys),
                         student_name)

\* the sums of lines 538-547 over the positive layers
RECURSIVE TotalPositive(_, _, _, _)
TotalPositive(lays, keys, student_name, inward) ==
    IF keys = <<>> THEN 0
    ELSE (IF inward THEN InDegree(lays[Head(keys)], student_name)
          ELSE OutDegree(lays[Head(keys)], student_name))
             + TotalPositive(lays, Tail(keys), student_name, inward)

\* what get_student_profile(student_name) hands back: {} for a name outside
\* the roster, a KeyError when the avoidance layer is not built
ProfileOf(lays, studs, student_name) ==
    LET obj == ProfileLoop([layers |-> lays, profile_layers |-> <<>>],
                           lays, LayerKeys(lays), student_name)
        pos == PositiveLayerKeys(lays)
    IN  IF student_name \notin DOMAIN NameToId(studs)
        THEN Returned("get_student_profile", student_name, <<>>)
        ELSE IF "avoidance" \notin DOMAIN lays
        THEN Raised("get_student_profile", student_name)
        ELSE Returned("get_student_profile", student_name,
                 [name |-> student_name,
                  layers |-> obj.profile_layers,
                  overall |->
                      [total_positive_received |->
                           TotalPositive(lays, pos, student_name, TRUE),
                       total_positive_given |->
                           TotalPositive(lays, pos, student_name, FALSE),
                       avoidance_received |-> InDegree(lays["avoidance"], student_name),
                       avoidance_given |-> OutDegree(lays["avoidance"], student_name)]])

\* get_student_profile(student_name) on the analyzer
GetStudentProfile ==
    \E student_name \in DOMAIN NameToId(students) \cup {"Z"} :
        LET obj == ProfileLoop([layers |-> layers, profile_layers |-> <<>>],
                               layers, LayerKeys(layers), student_name)
        IN  /\ returned' = Some(ProfileOf(layers, students, student_name))
            /\ layers' = IF student_name \in DOMAIN NameToId(students)
                         THEN obj.layers ELSE layers
            /\ UNCHANGED <<students, responses, combined_graph, status>>
            /\ UNCHANGED <<layer_metrics, cross_layer_metrics, nx_calls>>
            /\ UNCHANGED ca_vars
            /\ UNCHANGED aws_vars

\* ----------------------------------------- ClassroomAnalyzer entry points
\* an exception of the given class leaving an entry point
RaisedWith(op, arg, exc) == [op |-> op, arg |-> arg, raised |-> TRUE, value |-> exc]

\* mutant: load_data reports success without a response
HasResponses_Always(resps) == TRUE

\* what load_data() returns: len(self.responses) > 0 (line 57)
HasResponses(resps) == Len(resps) > 0

\* the partitions community detection may hand analyze() for G, None when it
\* is not reached or raises
PartitionChoices(G) ==
    IF ReachesPartition(G) THEN {None} \cup {Some(f) : f \in Partitions(G)} ELSE {None}

\* the dict get_avoidance_warnings returns for an avoidance layer without
\* edges (lines 404-413)
NoAvoidanceResult ==
    [warnings |-> <<>>,
     patterns |-> <<>>,
     summary  |-> [total_warnings |-> 0, requires_attention |-> FALSE,
                   overall_risk |-> "NONE"]]

\* the partitions community detection may hand the warning system of
\* run_multilayer_analysis
MultilayerPartitions(studs, resps) ==
    LET b == BuildLayersFrom(1, <<>>, studs, resps)
    IN  IF b.raised THEN {None} ELSE PartitionChoices(b.layers["avoidance"])

\* what run_multilayer_analysis() returns over the given roster and
\* responses; any exception gives the three empty dicts
MultilayerResult(studs, resps, partition) ==
    LET b == BuildLayersFrom(1, <<>>, studs, resps)
    IN  IF b.raised
        THEN [layers |-> <<>>, cross_layer |-> <<>>, avoidance_warnings |-> <<>>]
        ELSE LET m == AnalyzeGraphs([layer_metrics |-> <<>>, nx_calls |-> <<>>], b.layers,
                                    Some(BuildCombinedGraph(studs, b.layers)))
                 G == b.layers["avoidance"]
                 pos == [k \in DOMAIN b.layers \ {"avoidance"} |-> b.layers[k]]
             IN  [layers |-> m.layer_metrics,
                  cross_layer |-> CalculateCrossLayerMetrics(b.layers, studs),
                  avoidance_warnings |->
                      IF NumberOfNodes(G) > 0 /\ NumberOfEdges(G) > 0
                      THEN AnalysisResult(RunAnalyze(G, pos, partition))
                      ELSE <<>>]

\* run_multilayer_analysis() over the loaded roster and responses
RunMultilayerAnalysis ==
    /\ \E partition \in MultilayerPartitions(students, responses) :
          returned' = Some(Returned("run_multilayer_analysis", "",
                                    MultilayerResult(students, responses, partition)))
    /\ UNCHANGED <<layer_metrics, cross_layer_metrics, nx_calls>>
    /\ UNCHANGED ca_vars
    /\ UNCHANGED ml_vars
    /\ UNCHANGED aws_vars

\* get_avoidance_warnings(classroom_id): ValueError when load_data finds no
\* response, the exception of build_layers unhandled
GetAvoidanceWarnings ==
    LET b == BuildLayersFrom(1, <<>>, students, responses)
    IN  /\ IF ~HasResponses(responses)
           THEN returned' = Some(RaisedWith("get_avoidance_warnings", "", "ValueError"))
           ELSE IF b.raised
           THEN returned' = Some(Raised("get_avoidance_warnings", ""))
           ELSE LET G == b.layers["avoidance"]
                    pos == [k \in DOMAIN b.layers \ {"avoidance"} |-> b.layers[k]]
                IN  \E partition \in PartitionChoices(G) :
                       returned' = Some(Returned("get_avoidance_warnings", "",
                           IF NumberOfNodes(G) = 0 \/ NumberOfEdges(G) = 0
                           THEN NoAvoidanceResult
                           ELSE AnalysisResult(RunAnalyze(G, pos, partition))))
        /\ UNCHANGED <<layer_metrics, cross_layer_metrics, nx_calls>>
        /\ UNCHANGED ca_vars
        /\ UNCHANGED ml_vars
        /\ UNCHANGED aws_vars

\* ------------------------------- the engine on well-formed response sets
\* payloads of a roster of n: no payload, or nominations of roster members for
\* one positive type or for avoidance
EnginePayloads(n) ==
    {NonePayload} \cup
        {DictPayload([x \in {k} |-> ListVal(l)]) :
            k \in {"friends", "avoidance"},
            l \in SeqsUpTo({IntTok(i) : i \in 1..n}, MaxEngineTargets)}

InitEngine ==
    /\ \E n \in 0..MaxStudents :
          /\ students = Roster(n)
          /\ responses \in SeqsUpTo([student_id : 1..n, responses : EnginePayloads(n)],
                                    MaxResponses)
    /\ layers = <<>>
    /\ combined_graph = None
    /\ status = "new"
    /\ layer_metrics = <<>>
    /\ cross_layer_metrics = <<>>
    /\ nx_calls = <<>>
    /\ returned = None
    /\ NoClassroomAnalyzer
    /\ NoWarningSystem

NextEngine ==
    \/ BuildLayers /\ UNCHANGED aws_vars /\ UNCHANGED me_vars /\ UNCHANGED ca_vars
    \/ AnalyzeAllLayers
    \/ GetStudentProfile
    \/ ConstructWarningSystem
    \/ Analyze
    \/ RunMultilayerAnalysis
    \/ GetAvoidanceWarnings

SpecEngine == InitEngine /\ [][NextEngine]_vars

\* ------------------------------------- the metrics engine on denser layers
\* the target ids student i names, for the edges of the given slots
SlotTargets(n, i, slots) ==
    LET ids == [k \in 1..n |-> k]
        own == SelectSeq(slots, LAMBDA k : EdgeSlot(ids, k)[1] = i)
    IN  [j \in 1..Len(own) |-> IntTok(EdgeSlot(ids, own[j])[2])]

\* one record per student, naming friends and helpers
MetricResponses(n, friends, helpers) ==
    [i \in 1..n |->
        [student_id |-> i,
         responses |-> DictPayload([friends |-> ListVal(SlotTargets(n, i, friends)),
                                    helpers |-> ListVal(SlotTargets(n, i, helpers))])]]

InitMetrics ==
    /\ \E n \in 0..MaxMetricNodes :
          /\ students = Roster(n)
          /\ \E friends \in SlotLists(n) :
             \E helpers \in {s \in SlotLists(n) : Len(s) <= 1} :
                responses = MetricResponses(n, friends, helpers)
    /\ layers = <<>>
    /\ combined_graph = None
    /\ status = "new"
    /\ layer_metrics = <<>>
    /\ cross_layer_metrics = <<>>
    /\ nx_calls = <<>>
    /\ returned = None
    /\ NoClassroomAnalyzer
    /\ NoWarningSystem

NextMetrics ==
    \/ BuildLayers /\ UNCHANGED aws_vars /\ UNCHANGED me_vars /\ UNCHANGED ca_vars
    \/ AnalyzeAllLayers
    \/ CallDyadCensus

SpecMetrics == InitMetrics /\ [][NextMetrics]_vars

\* ------------------------------------------ re-runs on a ring of avoidance
\* the avoidance answers of student i in a ring of n: any of the two ring
\* neighbours, the next one first
RingAnswers(n, i) ==
    LET next == IntTok((i % n) + 1)
        prev == IntTok(((i + n - 2) % n) + 1)
    IN  {<<>>, <<next>>, <<prev>>, <<next, prev>>}

\* the friends answer every student of the ring gives: nobody, or the first
\* and the last student of the roster
RingFriends(n) == {<<>>, <<IntTok(1), IntTok(n)>>}

InitRerun ==
    /\ students = Roster(MaxRerunNodes)
    /\ \E answers \in [1..MaxRerunNodes -> SeqsUpTo({IntTok(i) : i \in 1..MaxRerunNodes}, 2)] :
       \E friends \in RingFriends(MaxRerunNodes) :
          /\ \A i \in 1..MaxRerunNodes : answers[i] \in RingAnswers(MaxRerunNodes, i)
          /\ responses = [i \in 1..MaxRerunNodes |->
                            [student_id |-> i,
                             responses |-> DictPayload([x \in {"avoidance", "friends"} |->
                                                           IF x = "avoidance"
                                                           THEN ListVal(answers[i])
                                                           ELSE ListVal(friends)])]]
    /\ layers = <<>>
    /\ combined_graph = None
    /\ status = "new"
    /\ layer_metrics = <<>>
    /\ cross_layer_metrics = <<>>
    /\ nx_calls = <<>>
    /\ returned = None
    /\ NoClassroomAnalyzer
    /\ NoWarningSystem

NextRerun ==
    \/ BuildLayers /\ UNCHANGED aws_vars /\ UNCHANGED me_vars /\ UNCHANGED ca_vars
    \/ ConstructWarningSystem
    \/ Analyze

SpecRerun == InitRerun /\ [][NextRerun]_vars

\* --------------------------------- one layer with best-effort metrics failing
\* the library calls _calculate_basic_metrics and _calculate_advanced_metrics
\* wrap in a try of their own
BestEffort ==
    {"closeness_centrality", "eigenvector_centrality", "pagerank", "triadic_census",
     "communities"}

\* the per-node result of a networkx algorithm whose numbers are not computed
\* here: one value per node, told apart by algorithm and node
LibraryValue(G, algorithm) == [n \in Nodes(G) |-> [algorithm |-> algorithm, node |-> n]]

\* {n: 0 for n in G.nodes()}
ZeroForEveryNode(G) == [n \in Nodes(G) |-> Zero]

\* mutant: closeness and eigenvector centrality share one try
CalculateBasicMetricsWith_OneTry(G, failed) ==
    [in_degree_centrality   |-> InDegreeCentrality(G),
     out_degree_centrality  |-> OutDegreeCentrality(G),
     betweenness_centrality |-> LibraryValue(G, "betweenness_centrality"),
     closeness_centrality   |-> IF "closeness_centrality" \in failed
                                THEN ZeroForEveryNode(G)
                                ELSE LibraryValue(G, "closeness_centrality"),
     eigenvector_centrality |-> IF {"closeness_centrality", "eigenvector_centrality"}
                                       \cap failed # {}
                                THEN ZeroForEveryNode(G)
                                ELSE LibraryValue(G, "eigenvector_centrality"),
     pagerank               |-> IF "pagerank" \in failed
                                THEN ZeroForEveryNode(G)
                                ELSE LibraryValue(G, "pagerank")]

\* _calculate_basic_metrics when the library calls named in `failed` raise
\* (lines 211-232): the degree centralities as CalculateBasicMetrics has them
CalculateBasicMetricsWith(G, failed) ==
    [in_degree_centrality   |-> CalculateBasicMetrics(G).in_degree_centrality,
     out_degree_centrality  |-> CalculateBasicMetrics(G).out_degree_centrality,
     betweenness_centrality |-> LibraryValue(G, "betweenness_centrality"),
     closeness_centrality   |-> IF "closeness_centrality" \in failed
                                THEN ZeroForEveryNode(G)
                                ELSE LibraryValue(G, "closeness_centrality"),
     eigenvector_centrality |-> IF "eigenvector_centrality" \in failed
                                THEN ZeroForEveryNode(G)
                                ELSE LibraryValue(G, "eigenvector_centrality"),
     pagerank               |-> IF "pagerank" \in failed
                                THEN ZeroForEveryNode(G)
                                ELSE LibraryValue(G, "pagerank")]

\* _group_by_community: the members of each community under str(comm_id)
GroupByCommunity(G, communities) ==
    [k \in {ToString(communities[n]) : n \in Nodes(G)} |->
        SelectSeq(G.nodes, LAMBDA n : ToString(communities[n]) = k)]

\* community_louvain.modularity(communities, G_undirected)
Modularity(G, communities) ==
    Fraction(LouvainModularity(G, communities, {communities[n] : n \in Nodes(G)}),
             4 * WeightOf(G, UndirectedEdges(G)) * WeightOf(G, UndirectedEdges(G)))

\* _calculate_advanced_metrics when the library calls named in `failed` raise
\* (lines 257-260, 281-289), communities being what best_partition handed
\* back; reciprocity, dyad census and density as CalculateAdvancedMetrics has
\* them (the clustering, clique, core and component metrics are not carried)
CalculateAdvancedMetricsWith(G, failed, communities) ==
    [reciprocity     |-> CalculateAdvancedMetrics(G).reciprocity,
     dyad_census     |-> CalculateAdvancedMetrics(G).dyad_census,
     triadic_census  |-> IF "triadic_census" \in failed THEN <<>>
                         ELSE LibraryValue(G, "triadic_census"),
     density         |-> CalculateAdvancedMetrics(G).density,
     communities     |-> IF "communities" \in failed THEN <<>>
                         ELSE GroupByCommunity(G, communities),
     num_communities |-> IF "communities" \in failed THEN 0
                         ELSE Cardinality({communities[n] : n \in Nodes(G)}),
     modularity      |-> IF "communities" \in failed THEN Zero
                         ELSE Modularity(G, communities)]

\* _analyze_single_layer under these failures
AnalyzeSingleLayerWith(G, layer_type, failed, communities) ==
    IF IsDegenerate(G) THEN EmptyMetrics
    ELSE [basic        |-> CalculateBasicMetricsWith(G, failed),
          advanced     |-> CalculateAdvancedMetricsWith(G, failed, communities),
          summary      |-> GenerateLayerSummary(G, layer_type),
          top_students |-> IdentifyTopStudents(G, layer_type)]

\* the graph _analyze_single_layer is handed under a key
GraphUnder(key) == IF key = "combined" THEN combined_graph[1] ELSE layers[key]

\* _analyze_single_layer(G, layer_type) on a built layer or the combined
\* graph; the call records which library calls raised and the partition
CallAnalyzeSingleLayer ==
    /\ status = "built"
    /\ \E layer_type \in DOMAIN layers \cup {"combined"} :
          LET G == GraphUnder(layer_type)
          IN  \/ /\ IsDegenerate(G)
                 /\ returned' = Some(Returned("_analyze_single_layer",
                                   [layer_type |-> layer_type, failed |-> {},
                                    communities |-> <<>>],
                                   AnalyzeSingleLayerWith(G, layer_type, {}, <<>>)))
              \/ /\ ~IsDegenerate(G)
                 /\ \E failed \in {f \in SUBSET BestEffort : Cardinality(f) <= MaxFailures} :
                    \E communities \in Partitions(G) :
                       returned' = Some(Returned("_analyze_single_layer",
                                         [layer_type |-> layer_type, failed |-> failed,
                                          communities |-> communities],
                                         AnalyzeSingleLayerWith(G, layer_type, failed,
                                                                communities)))
    /\ UNCHANGED <<layer_metrics, cross_layer_metrics, nx_calls>>
    /\ UNCHANGED ca_vars
    /\ UNCHANGED ml_vars
    /\ UNCHANGED aws_vars

\* the slots of a roster of n that join two different students
OtherSlotLists(n) == {s \in SlotLists(n) : \A i \in 1..Len(s) : s[i] <= n * (n - 1)}

InitBestEffort ==
    /\ \E n \in 1..MaxMetricNodes :
          /\ students = Roster(n)
          /\ \E friends \in OtherSlotLists(n) :
                responses = MetricResponses(n, friends, <<>>)
    /\ layers = <<>>
    /\ combined_graph = None
    /\ status = "new"
    /\ layer_metrics = <<>>
    /\ cross_layer_metrics = <<>>
    /\ nx_calls = <<>>
    /\ returned = None
    /\ NoClassroomAnalyzer
    /\ NoWarningSystem

NextBestEffort ==
    \/ BuildLayers /\ UNCHANGED aws_vars /\ UNCHANGED me_vars /\ UNCHANGED ca_vars
    \/ CallAnalyzeSingleLayer

SpecBestEffort == InitBestEffort /\ [][NextBestEffort]_vars

\* --------------------------------------------- ClassroomAnalyzer services
\* get_layer_network_data(layer_type) (multilayer_analyzer.py lines 477-503)
GetLayerNetworkData(lays, layer_type) ==
    IF layer_type \notin DOMAIN lays THEN [nodes |-> <<>>, edges |-> <<>>]
    ELSE LET G == lays[layer_type]
             es == Edges(G)
         IN  [nodes |-> [k \in 1..Len(G.nodes) |-> [id |-> G.nodes[k], label |-> G.nodes[k]]],
              edges |-> [k \in 1..Len(es) |->
                            [source |-> es[k][1], target |-> es[k][2],
                             weight |-> G.weight[es[k]]]]]

\* dict.get(key, {})
GetOrEmpty(d, key) == IF key \in DOMAIN d THEN d[key] ELSE <<>>

\* mutant: every key passes the check of line 377
IsLayerKey_Any(lays, layer_type) == TRUE

\* layer_type in ml_analyzer.layers or layer_type == 'combined' (line 377)
IsLayerKey(lays, layer_type) == layer_type \in DOMAIN lays \/ layer_type = "combined"

\* the layer keys a caller asks for: a positive type, avoidance, the combined
\* graph, and two keys that name nothing
RequestedKeys == {"friends", "avoidance", "combined", "clique", ""}

\* get_layer_analysis(classroom_id, layer_type)
GetLayerAnalysis ==
    /\ \E layer_type \in RequestedKeys :
          LET b == BuildLayersFrom(1, <<>>, students, responses)
              m == AnalyzeGraphs([layer_metrics |-> <<>>, nx_calls |-> <<>>], b.layers,
                                 Some(BuildCombinedGraph(students, b.layers)))
          IN  returned' = Some(
                  IF ~HasResponses(responses)
                  THEN RaisedWith("get_layer_analysis", layer_type, "ValueError")
                  ELSE IF b.raised
                  THEN Raised("get_layer_analysis", layer_type)
                  ELSE IF ~IsLayerKey(b.layers, layer_type)
                  THEN RaisedWith("get_layer_analysis", layer_type, "ValueError")
                  ELSE Returned("get_layer_analysis", layer_type,
                           [layer_type |-> layer_type,
                            network_data |-> GetLayerNetworkData(b.layers, layer_type),
                            metrics |-> GetOrEmpty(m.layer_metrics, layer_type)]))
    /\ UNCHANGED <<layer_metrics, cross_layer_metrics, nx_calls>>
    /\ UNCHANGED ca_vars
    /\ UNCHANGED ml_vars
    /\ UNCHANGED aws_vars

\* ClassroomAnalyzer.get_student_profile(classroom_id, student_name)
ClassroomStudentProfile ==
    /\ \E student_name \in DOMAIN NameToId(students) \cup {"Z"} :
          LET b == BuildLayersFrom(1, <<>>, students, responses)
          IN  returned' = Some(
                  IF ~HasResponses(responses)
                  THEN RaisedWith("ClassroomAnalyzer.get_student_profile", student_name,
                                  "ValueError")
                  ELSE IF b.raised
                  THEN Raised("ClassroomAnalyzer.get_student_profile", student_name)
                  ELSE [ProfileOf(b.layers, students, student_name)
                            EXCEPT !.op = "ClassroomAnalyzer.get_student_profile"])
    /\ UNCHANGED <<layer_metrics, cross_layer_metrics, nx_calls>>
    /\ UNCHANGED ca_vars
    /\ UNCHANGED ml_vars
    /\ UNCHANGED aws_vars

\* get_all_results() on the analyzer: analyses first when layer_metrics is
\* empty; the value is its 'combined' entry and the network data per layer
GetAllResults ==
    LET need == layer_metrics = <<>>
        build == need /\ layers = <<>>
        b == IF build THEN BuildLayersFrom(1, layers, students, responses)
             ELSE [raised |-> FALSE, layers |-> layers]
        combined == IF build /\ ~b.raised
                    THEN Some(BuildCombinedGraph(students, b.layers))
                    ELSE combined_graph
        m == IF need
             THEN AnalyzeGraphs([layer_metrics |-> layer_metrics, nx_calls |-> nx_calls],
                                b.layers, combined)
             ELSE [layer_metrics |-> layer_metrics, nx_calls |-> nx_calls]
    IN  /\ layers' = b.layers
        /\ combined_graph' = combined
        /\ status' = IF ~build THEN status ELSE IF b.raised THEN "raised" ELSE "built"
        /\ layer_metrics' = IF b.raised THEN layer_metrics ELSE m.layer_metrics
        /\ nx_calls' = IF b.raised THEN nx_calls ELSE m.nx_calls
        /\ cross_layer_metrics' = IF b.raised \/ ~need THEN cross_layer_metrics
                                  ELSE CalculateCrossLayerMetrics(b.layers, students)
        /\ returned' = Some(
               IF b.raised THEN Raised("get_all_results", "")
               ELSE Returned("get_all_results", "",
                        [layers |-> [t \in RelTypes |->
                                        [network_data |-> GetLayerNetworkData(b.layers, t),
                                         metrics |-> GetOrEmpty(m.layer_metrics, t)]],
                         combined |->
                             [network_data |-> IF Truthy(combined)
                                               THEN GetLayerNetworkData(b.layers, "combined")
                                               ELSE <<>>,
                              metrics |-> GetOrEmpty(m.layer_metrics, "combined")]]))
        /\ UNCHANGED <<students, responses>>
        /\ UNCHANGED ca_vars
        /\ UNCHANGED aws_vars

\* RELATIONSHIP_WEIGHTS (lines 18-26), the weights in tenths
RELATIONSHIP_WEIGHTS ==
    [friends       |-> [type |-> "friendship",    weight |-> 10],
     helpers       |-> [type |-> "help",          weight |-> 8],
     teammates     |-> [type |-> "collaboration", weight |-> 9],
     leaders       |-> [type |-> "leadership",    weight |-> 7],
     trust         |-> [type |-> "trust",         weight |-> 10],
     communication |-> [type |-> "communication", weight |-> 6],
     avoidance     |-> [type |-> "avoidance",     weight |-> -5]]

\* lines 98-115 for one relationship key: acc = [keys, w], the edge keys in
\* insertion order and their summed weights
RECURSIVE CountTargets(_, _, _, _, _)
CountTargets(acc, source_name, target_ids, rel_key, id_to_name) ==
    IF target_ids = <<>> THEN acc
    ELSE LET t == ResolveTarget(Head(target_ids), id_to_name)
             key == <<source_name, t[1], RELATIONSHIP_WEIGHTS[rel_key].type>>
             w == RELATIONSHIP_WEIGHTS[rel_key].weight
             acc1 == IF t = None THEN acc
                     ELSE IF key \in DOMAIN acc.w THEN [acc EXCEPT !.w[key] = @ + w]
                     ELSE [keys |-> Append(acc.keys, key), w |-> Put(acc.w, key, w)]
         IN  CountTargets(acc1, source_name, Tail(target_ids), rel_key, id_to_name)

\* the loop over RELATIONSHIP_WEIGHTS for one response (lines 88-115); a
\* truthy value that is no list and no string makes the for loop raise
RECURSIVE CountRelations(_, _, _, _)
CountRelations(acc, response, keys, id_to_name) ==
    IF keys = <<>> THEN [raised |-> FALSE, acc |-> acc]
    ELSE LET target_ids == GetTargetIds(response.responses, Head(keys))
         IN  IF target_ids.kind = "scalar" THEN [raised |-> TRUE, acc |-> acc]
             ELSE CountRelations(CountTargets(acc, id_to_name[response.student_id],
                                              target_ids.items, Head(keys), id_to_name),
                                 response, Tail(keys), id_to_name)

\* the loop over self.responses (lines 79-115)
RECURSIVE CountResponses(_, _, _)
CountResponses(acc, resps, id_to_name) ==
    IF resps = <<>> THEN [raised |-> FALSE, acc |-> acc]
    ELSE IF Head(resps).student_id \notin DOMAIN id_to_name
    THEN CountResponses(acc, Tail(resps), id_to_name)
    ELSE IF Head(resps).responses.kind = "nondict"
    THEN [raised |-> TRUE, acc |-> acc]
    ELSE LET r == CountRelations(acc, Head(resps), RelTypeOrder, id_to_name)
         IN  IF r.raised THEN r ELSE CountResponses(r.acc, Tail(resps), id_to_name)

\* convert_to_network_data(): error is "ValueError" for an empty roster,
\* "other" for an exception of the response loop, "" otherwise
ConvertToNetworkData(studs, resps) ==
    IF Len(studs) = 0 THEN [error |-> "ValueError", nodes |-> <<>>, edges |-> <<>>]
    ELSE LET r == CountResponses([keys |-> <<>>, w |-> <<>>], resps, IdToName(studs))
         IN  IF r.raised THEN [error |-> "other", nodes |-> <<>>, edges |-> <<>>]
             ELSE [error |-> "",
                   nodes |-> [k \in 1..Len(studs) |->
                                 [id |-> studs[k].name, student_id |-> studs[k].id]],
                   edges |-> [k \in 1..Len(r.acc.keys) |->
                                 [source |-> r.acc.keys[k][1],
                                  target |-> r.acc.keys[k][2],
                                  type   |-> r.acc.keys[k][3],
                                  weight |-> r.acc.w[r.acc.keys[k]]]]]

\* how the calls into NetworkAnalyzer may end: the analysis is handed back
\* or an exception leaves it
NetworkAnalyzerOutcomes == {"done", "raised"}

\* self.analysis_result as analyze() composes it (lines 153-164); the
\* metrics, communities, summary and stats are NetworkAnalyzer's
AnalysisOf(nd) ==
    [network_data |->
         [nodes |-> [k \in 1..Len(nd.nodes) |->
                        [id |-> nd.nodes[k].id, label |-> nd.nodes[k].id]],
          edges |-> [k \in 1..Len(nd.edges) |->
                        [source |-> nd.edges[k].source, target |-> nd.edges[k].target,
                         weight |-> nd.edges[k].weight]]],
     metrics |-> "NetworkAnalyzer"]

\* mutant: an empty edge list is analysed like any other
NoRelations_Never(nd) == FALSE

\* not self.network_data['edges'] (line 143)
NoRelations(nd) == nd.edges = <<>>

\* mutant: save_result and get_ai_interpretation go ahead without a result
NoResult_Never(res) == FALSE

\* not self.analysis_result (lines 171, 192)
NoResult(res) == res = None

\* the converted network of a roster and its responses, without the error
NetworkOf(c) == [nodes |-> c.nodes, edges |-> c.edges]

\* load_data()
LoadData ==
    /\ loaded_students' = students
    /\ loaded_responses' = responses
    /\ returned' = Some(Returned("load_data", "", HasResponses(responses)))
    /\ UNCHANGED <<network_data, analysis_result, analysis_rows>>
    /\ UNCHANGED <<layer_metrics, cross_layer_metrics, nx_calls>>
    /\ UNCHANGED ml_vars
    /\ UNCHANGED aws_vars

\* convert_to_network_data()
ConvertCall ==
    LET c == ConvertToNetworkData(loaded_students, loaded_responses)
    IN  /\ network_data' = IF c.error = "" THEN Some(NetworkOf(c)) ELSE network_data
        /\ returned' = Some(IF c.error = "ValueError"
                            THEN RaisedWith("convert_to_network_data", "", "ValueError")
                            ELSE IF c.error # ""
                            THEN Raised("convert_to_network_data", "")
                            ELSE Returned("convert_to_network_data", "", NetworkOf(c)))
        /\ UNCHANGED <<loaded_students, loaded_responses, analysis_result, analysis_rows>>
        /\ UNCHANGED <<layer_metrics, cross_layer_metrics, nx_calls>>
        /\ UNCHANGED ml_vars
        /\ UNCHANGED aws_vars

\* ClassroomAnalyzer.analyze(): converts first when there is no network data
ClassroomAnalyze ==
    LET c == IF network_data = None
             THEN ConvertToNetworkData(loaded_students, loaded_responses)
             ELSE [error |-> "", nodes |-> network_data[1].nodes,
                   edges |-> network_data[1].edges]
    IN  \E outcome \in NetworkAnalyzerOutcomes :
           /\ network_data' = IF c.error = "" THEN Some(NetworkOf(c)) ELSE network_data
           /\ IF c.error = "ValueError" \/ (c.error = "" /\ NoRelations(c))
              THEN /\ returned' = Some(RaisedWith("analyze", "", "ValueError"))
                   /\ UNCHANGED analysis_result
              ELSE IF c.error # "" \/ outcome = "raised"
              THEN /\ returned' = Some(Raised("analyze", ""))
                   /\ UNCHANGED analysis_result
              ELSE /\ returned' = Some(Returned("analyze", "", AnalysisOf(NetworkOf(c))))
                   /\ analysis_result' = Some(AnalysisOf(NetworkOf(c)))
           /\ UNCHANGED <<loaded_students, loaded_responses, analysis_rows>>
           /\ UNCHANGED <<layer_metrics, cross_layer_metrics, nx_calls>>
           /\ UNCHANGED ml_vars
           /\ UNCHANGED aws_vars

\* save_result(): the stored rows of the classroom are replaced by one row
SaveResult ==
    /\ IF NoResult(analysis_result)
       THEN /\ returned' = Some(RaisedWith("save_result", "", "ValueError"))
            /\ UNCHANGED analysis_rows
       ELSE /\ returned' = Some(Returned("save_result", "", "id"))
            /\ analysis_rows' = <<analysis_result[1]>>
    /\ UNCHANGED <<loaded_students, loaded_responses, network_data, analysis_result>>
    /\ UNCHANGED <<layer_metrics, cross_layer_metrics, nx_calls>>
    /\ UNCHANGED ml_vars
    /\ UNCHANGED aws_vars

\* get_ai_interpretation(api_manager): a text, or the exception of
\* NetworkAnalyzer.find_isolated_nodes
GetAiInterpretation ==
    /\ \E outcome \in NetworkAnalyzerOutcomes :
          returned' = Some(IF NoResult(analysis_result)
                           THEN RaisedWith("get_ai_interpretation", "", "ValueError")
                           ELSE IF outcome = "raised"
                           THEN Raised("get_ai_interpretation", "")
                           ELSE Returned("get_ai_interpretation", "", "text"))
    /\ UNCHANGED ca_vars
    /\ UNCHANGED <<layer_metrics, cross_layer_metrics, nx_calls>>
    /\ UNCHANGED ml_vars
    /\ UNCHANGED aws_vars

\* run_analysis(classroom_id, api_manager) on a fresh ClassroomAnalyzer:
\* load, convert, analyze, save, interpret, multilayer analysis
RunAnalysis ==
    LET c == ConvertToNetworkData(students, responses)
    IN  \E outcome \in NetworkAnalyzerOutcomes :
        \E told \in NetworkAnalyzerOutcomes :
        \E partition \in MultilayerPartitions(students, responses) :
           /\ IF ~HasResponses(responses) \/ c.error = "ValueError"
                    \/ (c.error = "" /\ NoRelations(c))
              THEN /\ returned' = Some(RaisedWith("run_analysis", "", "ValueError"))
                   /\ UNCHANGED analysis_rows
              ELSE IF c.error # "" \/ outcome = "raised"
              THEN /\ returned' = Some(Raised("run_analysis", ""))
                   /\ UNCHANGED analysis_rows
              ELSE /\ analysis_rows' = <<AnalysisOf(NetworkOf(c))>>
                   /\ returned' = Some(
                          IF told = "raised" THEN Raised("run_analysis", "")
                          ELSE Returned("run_analysis", "",
                                   [success |-> TRUE,
                                    analysis |-> AnalysisOf(NetworkOf(c)),
                                    multilayer |->
                                        MultilayerResult(students, responses, partition)]))
           /\ UNCHANGED <<loaded_students, loaded_responses, network_data, analysis_result>>
           /\ UNCHANGED <<layer_metrics, cross_layer_metrics, nx_calls>>
           /\ UNCHANGED ml_vars
           /\ UNCHANGED aws_vars

\* an AnalysisResult row the classroom kept from an earlier run
StoredRow == [network_data |-> [nodes |-> <<>>, edges |-> <<>>], metrics |-> "stored"]

\* ------------------------------------- the service calls over a classroom
\* the classroom's roster and completed responses as stored; an analysis row
\* of an earlier run may be there
InitService ==
    /\ \E n \in 0..MaxStudents :
          /\ students = Roster(n)
          /\ responses \in SeqsUpTo([student_id : 1..n, responses : EnginePayloads(n)],
                                    MaxServiceResponses)
    /\ layers = <<>>
    /\ combined_graph = None
    /\ status = "new"
    /\ layer_metrics = <<>>
    /\ cross_layer_metrics = <<>>
    /\ nx_calls = <<>>
    /\ returned = None
    /\ loaded_students = <<>>
    /\ loaded_responses = <<>>
    /\ network_data = None
    /\ analysis_result = None
    /\ analysis_rows \in {<<>>, <<StoredRow>>}
    /\ NoWarningSystem

NextService ==
    \/ RunAnalysis
    \/ GetLayerAnalysis
    \/ GetAvoidanceWarnings
    \/ ClassroomStudentProfile
    \/ GetAllResults

SpecService == InitService /\ [][NextService]_vars

\* -------------------------------------- one ClassroomAnalyzer in use
NextClassroom ==
    \/ LoadData
    \/ ConvertCall
    \/ ClassroomAnalyze
    \/ SaveResult
    \/ GetAiInterpretation

SpecClassroom == InitService /\ [][NextClassroom]_vars


\* ======================================================= layer builder claims
RosterIds == {students[k].id : k \in 1..Len(students)}

RosterNames == {students[k].name : k \in 1..Len(students)}

NameOfId(i) == students[CHOOSE k \in 1..Len(students) : students[k].id = i].name

\* the roster member a stored target id denotes, if any
Denotes(tok, i) == tok.kind \in {"int", "numstr"} /\ tok.val = i

\* the target ids record r carries for relationship type t
NamedItems(r, t) ==
    IF r.responses.kind = "dict" /\ t \in DOMAIN r.responses.map
       /\ r.responses.map[t].kind \in {"list", "str"}
    THEN r.responses.map[t].items
    ELSE <<>>

\* the positions (record, item) at which roster member u names v for type t
Nominations(u, v, t) ==
    {p \in (1..Len(responses)) \X (1..MaxTargets) :
        /\ responses[p[1]].student_id = u
        /\ p[2] <= Len(NamedItems(responses[p[1]], t))
        /\ Denotes(NamedItems(responses[p[1]], t)[p[2]], v)}

\* C1: no layer holds an edge from an individual to themselves
C1_NoSelfLoop ==
    \A t \in DOMAIN layers : \A n \in Nodes(layers[t]) : ~HasEdge(layers[t], n, n)

\* C2: after build_layers all seven layers exist and each built layer holds
\* exactly one node per roster individual, whatever the responses
C2_EveryLayerHoldsRoster ==
    /\ status = "built" => DOMAIN layers = RelTypes
    /\ \A t \in DOMAIN layers :
          /\ NumberOfNodes(layers[t]) = Len(students)
          /\ Nodes(layers[t]) = RosterNames

C2_Witness ==
    /\ status = "built"
    /\ Len(students) = MaxStudents
    /\ responses = <<>>
    /\ \A t \in RelTypes :
          NumberOfNodes(layers[t]) = MaxStudents /\ NumberOfEdges(layers[t]) = 0

\* C3: in each built layer the edge (u, v) exists iff u named v at least once
\* for that type, and its weight is the number of times u named v
C3_WeightCountsNominations ==
    \A t \in DOMAIN layers : \A u \in RosterIds : \A v \in RosterIds :
        LET c == Cardinality(Nominations(u, v, t))
            G == layers[t]
        IN  /\ HasEdge(G, NameOfId(u), NameOfId(v)) <=> c >= 1
            /\ c >= 1 => G.weight[<<NameOfId(u), NameOfId(v)>>] = c
            /\ Len(SelectSeq(G.succ[NameOfId(u)], LAMBDA x : x = NameOfId(v))) <= 1

\* a duplicate inside one record and a repeat across records, both counted
C3_Witness ==
    /\ status = "built"
    /\ \E t \in RelTypes : \E u \in RosterIds : \E v \in RosterIds :
          /\ u # v
          /\ \E p \in Nominations(u, v, t) : \E q \in Nominations(u, v, t) :
                p[1] # q[1]
          /\ \E p \in Nominations(u, v, t) : \E q \in Nominations(u, v, t) :
                p[1] = q[1] /\ p[2] # q[2]
          /\ layers[t].weight[<<NameOfId(u), NameOfId(v)>>] = 3

\* C4: build_layers never fails on an input anomaly, and every valid
\* nomination of the same input still has its edge
C4_NeverFails ==
    status # "new" =>
        /\ status = "built"
        /\ \A t \in RelTypes : \A u \in RosterIds : \A v \in RosterIds :
              Nominations(u, v, t) # {} =>
                  t \in DOMAIN layers /\ HasEdge(layers[t], NameOfId(u), NameOfId(v))

RECURSIVE SumOver(_, _)
SumOver(S, f) ==
    IF S = {} THEN 0
    ELSE LET x == CHOOSE y \in S : TRUE IN f[x] + SumOver(S \ {x}, f)

\* the positive layers that hold the edge e
PositiveLayersWith(e) ==
    {t \in PositiveTypes \cap DOMAIN layers : e \in EdgeSet(layers[t])}

\* C5: the combined graph holds (u, v) iff a positive layer does, with the
\* weighted sum of the positive layers' weights; avoidance contributes nothing
C5_CombinedIsWeightedSum ==
    status = "built" =>
        LET C == combined_graph[1]
        IN  \A u \in RosterNames : \A v \in RosterNames :
                LET e == <<u, v>>
                    L == PositiveLayersWith(e)
                IN  /\ HasEdge(C, u, v) <=> L # {}
                    /\ L # {} =>
                          C.weight[e] =
                              SumOver(L, [t \in L |->
                                  layers[t].weight[e] * RELATIONSHIP_TYPES[t].weight])

C5_Witness ==
    /\ status = "built"
    /\ \E u \in RosterNames : \E v \in RosterNames :
          /\ HasEdge(layers["friends"], u, v)
          /\ HasEdge(layers["helpers"], u, v)
          /\ u # v
          /\ combined_graph[1].weight[<<u, v>>] = 18

\* ===================================================== warning system claims
\* the warnings of one type in the list analyze() returned
ReturnedOfType(type) == SelectSeq(result[1].warnings, LAMBDA w : w.type = type)

MutualPairs(G) ==
    {{u, v} : u \in Nodes(G), v \in Nodes(G)} \cap
        {p \in SUBSET Nodes(G) :
            \E u \in p : \E v \in p : u # v /\ HasEdge(G, u, v) /\ HasEdge(G, v, u)}

\* C6: exactly one MUTUAL_AVOIDANCE warning, CRITICAL, per unordered pair of
\* two individuals avoiding each other, naming exactly the two, and no other
C6_OneWarningPerMutualPair ==
    result # None =>
        LET G == avoidance_graph[1]
            W == ReturnedOfType("MUTUAL_AVOIDANCE")
        IN  /\ \A i \in 1..Len(W) :
                  /\ W[i].level = "CRITICAL"
                  /\ Len(W[i].students) = 2
                  /\ Range(W[i].students) \in MutualPairs(G)
            /\ \A p \in MutualPairs(G) :
                  Cardinality({i \in 1..Len(W) : Range(W[i].students) = p}) = 1

\* C7: a ONE_WAY_AVOIDANCE warning is for an edge without its reverse whose
\* two ends no warning of another type names
C7_OneWayIsLeftover ==
    result # None =>
        LET G == avoidance_graph[1]
            W == result[1].warnings
        IN  \A i \in 1..Len(W) :
                W[i].type = "ONE_WAY_AVOIDANCE" =>
                    /\ Len(W[i].students) = 2
                    /\ HasEdge(G, W[i].students[1], W[i].students[2])
                    /\ ~HasEdge(G, W[i].students[2], W[i].students[1])
                    /\ \A j \in 1..Len(W) :
                          W[j].type # "ONE_WAY_AVOIDANCE" =>
                              Range(W[j].students) \cap Range(W[i].students) = {}

\* a leftover edge reported next to warnings of other types, with another
\* one-way edge held back because a warning names one of its ends
C7_Witness ==
    /\ result # None
    /\ Len(ReturnedOfType("ONE_WAY_AVOIDANCE")) >= 1
    /\ Len(ReturnedOfType("ONE_WAY_AVOIDANCE")) < Len(result[1].warnings)
    /\ \E e \in EdgeSet(avoidance_graph[1]) :
          /\ ~HasEdge(avoidance_graph[1], e[2], e[1])
          /\ \A i \in 1..Len(result[1].warnings) :
                result[1].warnings[i].type = "ONE_WAY_AVOIDANCE" =>
                    result[1].warnings[i].students # e

\* in-degree of X summed over every positive layer handed in
TotalPositiveIn(X) ==
    SumOver(DOMAIN positive_layers,
            [k \in DOMAIN positive_layers |->
                IF HasNode(positive_layers[k], X) THEN InDegree(positive_layers[k], X) ELSE 0])

IsolatedWarned(X) ==
    \E i \in 1..Len(result[1].warnings) :
        /\ result[1].warnings[i].type = "ISOLATED_WITH_AVOIDANCE"
        /\ result[1].warnings[i].students = <<X>>

\* C8 as claimed: X is warned iff its avoidance in-degree is nonzero and its
\* positive in-degree is at most 2, whatever positive layers were handed in
C8_IsolatedIff ==
    result # None =>
        \A X \in Nodes(avoidance_graph[1]) :
            IsolatedWarned(X) <=>
                (InDegree(avoidance_graph[1], X) > 0 /\ TotalPositiveIn(X) <= 2)

\* C8 amended: the same, provided at least one positive layer was handed in;
\* with none, no ISOLATED_WITH_AVOIDANCE warning at all.  One HIGH warning per
\* such X, AVOIDANCE_TARGET or not
C8_IsolatedIffGivenLayers ==
    result # None =>
        LET G == avoidance_graph[1]
            W == ReturnedOfType("ISOLATED_WITH_AVOIDANCE")
        IN  /\ \A X \in Nodes(G) :
                  IsolatedWarned(X) <=>
                      /\ DOMAIN positive_layers # {}
                      /\ InDegree(G, X) > 0
                      /\ TotalPositiveIn(X) <= 2
            /\ \A i \in 1..Len(W) :
                  /\ W[i].level = "HIGH"
                  /\ \A j \in 1..Len(W) : W[i].students = W[j].students => i = j

C8_Witness ==
    /\ result # None
    /\ DOMAIN positive_layers # {}
    /\ \E X \in Nodes(avoidance_graph[1]) :
          /\ IsolatedWarned(X)
          /\ \E i \in 1..Len(result[1].warnings) :
                /\ result[1].warnings[i].type = "AVOIDANCE_TARGET"
                /\ result[1].warnings[i].students = <<X>>
    /\ \E Y \in Nodes(avoidance_graph[1]) :
          /\ InDegree(avoidance_graph[1], Y) > 0
          /\ TotalPositiveIn(Y) = 3
          /\ ~IsolatedWarned(Y)
    /\ \E Z \in Nodes(avoidance_graph[1]) :
          /\ InDegree(avoidance_graph[1], Z) = 0
          /\ OutDegree(avoidance_graph[1], Z) > 0
          /\ ~IsolatedWarned(Z)

\* C9: one AVOIDANCE_TARGET warning, HIGH, for X iff X's avoidance in-degree
\* is at least 2, listing exactly the individuals with an edge to X
C9_TargetIff ==
    result # None =>
        LET G == avoidance_graph[1]
            W == ReturnedOfType("AVOIDANCE_TARGET")
        IN  /\ \A X \in Nodes(G) :
                  Cardinality({i \in 1..Len(W) : W[i].students = <<X>>})
                      = IF InDegree(G, X) >= 2 THEN 1 ELSE 0
            /\ \A i \in 1..Len(W) :
                  /\ W[i].level = "HIGH"
                  /\ Len(W[i].students) = 1
                  /\ W[i].data.student = W[i].students[1]
                  /\ Range(W[i].data.avoiders)
                        = {u \in Nodes(G) : HasEdge(G, u, W[i].students[1])}
                  /\ Len(W[i].data.avoiders) = Cardinality(Range(W[i].data.avoiders))
                  /\ W[i].data.count = Len(W[i].data.avoiders)

C9_Witness ==
    /\ result # None
    /\ \E i \in 1..Len(result[1].warnings) :
          /\ result[1].warnings[i].type = "AVOIDANCE_TARGET"
          /\ Len(result[1].warnings[i].data.avoiders) = 3
    /\ Len(ReturnedOfType("AVOIDANCE_TARGET")) = 1

\* the place of a warning type in the order the detectors run
DetectorRank(type) ==
    CASE type = "MUTUAL_AVOIDANCE" -> 1
      [] type = "AVOIDANCE_TARGET" -> 2
      [] type = "AVOIDANCE_INITIATOR" -> 3
      [] type = "ISOLATED_WITH_AVOIDANCE" -> 4
      [] type = "AVOIDANCE_CLUSTER" -> 5
      [] type = "ONE_WAY_AVOIDANCE" -> 6

IndexIn(seq, x) == CHOOSE k \in 1..Len(seq) : seq[k] = x

\* did the detector of their common type produce warning a before warning b
ProducedBefore(G, a, b) ==
    IF a.type \in {"AVOIDANCE_TARGET", "AVOIDANCE_INITIATOR", "ISOLATED_WITH_AVOIDANCE"}
    THEN IndexIn(G.nodes, a.students[1]) < IndexIn(G.nodes, b.students[1])
    ELSE IF a.type \in {"MUTUAL_AVOIDANCE", "ONE_WAY_AVOIDANCE"}
    THEN IndexIn(Edges(G), a.students) < IndexIn(Edges(G), b.students)
    ELSE a.data.group1[1] # b.data.group1[1] \/ a.data.group2[1] # b.data.group2[1]

\* C10: the returned list is in severity order CRITICAL, HIGH, MODERATE, LOW,
\* and warnings of one level are in the order the detectors produced them
C10_SortedAndStable ==
    result # None =>
        LET G == avoidance_graph[1]
            W == result[1].warnings
        IN  \A i \in 1..Len(W) : \A j \in 1..Len(W) :
                i < j =>
                    /\ Priority(W[i]) <= Priority(W[j])
                    /\ W[i].level = W[j].level =>
                          DetectorRank(W[i].type) <= DetectorRank(W[j].type)
                    /\ W[i].type = W[j].type => ProducedBefore(G, W[i], W[j])

\* the sort had to move a warning: an ISOLATED_WITH_AVOIDANCE now stands
\* before an AVOIDANCE_INITIATOR and after an AVOIDANCE_TARGET, and a cluster
\* warning follows the initiators
C10_Witness ==
    /\ result # None
    /\ LET W == result[1].warnings
       IN  /\ \E i \in 1..Len(W) : \E j \in 1..Len(W) : \E k \in 1..Len(W) :
                 /\ i < j /\ j < k
                 /\ W[i].type = "AVOIDANCE_TARGET"
                 /\ W[j].type = "ISOLATED_WITH_AVOIDANCE"
                 /\ W[k].type = "AVOIDANCE_INITIATOR"
           /\ \E i \in 1..Len(W) : W[i].type = "AVOIDANCE_CLUSTER"

\* the warnings of one level in the list analyze() returned
ReturnedAtLevel(level) == SelectSeq(result[1].warnings, LAMBDA w : w.level = level)

\* C11: the overall risk label follows the rule table on the CRITICAL and HIGH
\* counts of the returned list, first match winning: CRITICAL >= 2 is HIGH,
\* else CRITICAL >= 1 or HIGH >= 3 is MODERATE, else HIGH >= 1 is LOW, else NONE
C11_RiskFollowsRuleTable ==
    result # None =>
        LET c == Len(ReturnedAtLevel("CRITICAL"))
            h == Len(ReturnedAtLevel("HIGH"))
            risk == result[1].summary.overall_risk
        IN  /\ c >= 2 => risk = "HIGH"
            /\ c < 2 /\ (c >= 1 \/ h >= 3) => risk = "MODERATE"
            /\ c = 0 /\ h < 3 /\ h >= 1 => risk = "LOW"
            /\ c = 0 /\ h = 0 => risk = "NONE"

\* one mutual pair of two individuals and nothing else CRITICAL
C11_Witness ==
    /\ result # None
    /\ Len(ReturnedAtLevel("CRITICAL")) = 1
    /\ ReturnedAtLevel("CRITICAL")[1].students[1] # ReturnedAtLevel("CRITICAL")[1].students[2]
    /\ result[1].summary.overall_risk = "MODERATE"

\* C12: the summary's level counts count the returned warnings of each level,
\* total_warnings is the sum of the four level counts and of the type counts,
\* and requires_attention holds iff a CRITICAL or HIGH warning was returned
C12_SummaryCountsWarnings ==
    result # None =>
        LET S == result[1].summary
            W == result[1].warnings
        IN  /\ S.critical_count = Len(ReturnedAtLevel("CRITICAL"))
            /\ S.high_count = Len(ReturnedAtLevel("HIGH"))
            /\ S.moderate_count = Len(ReturnedAtLevel("MODERATE"))
            /\ S.low_count = Len(ReturnedAtLevel("LOW"))
            /\ S.total_warnings =
                  S.critical_count + S.high_count + S.moderate_count + S.low_count
            /\ S.total_warnings = SumOver(DOMAIN S.type_counts, S.type_counts)
            /\ S.requires_attention <=>
                  \E i \in 1..Len(W) : W[i].level \in {"CRITICAL", "HIGH"}

\* a HIGH and a LOW warning in one list, no CRITICAL one
C12_Witness ==
    /\ result # None
    /\ result[1].summary.critical_count = 0
    /\ result[1].summary.high_count >= 1
    /\ result[1].summary.low_count >= 1
    /\ result[1].summary.requires_attention

\* the individuals the returned warnings of the other types name
NamedByOthers ==
    UNION {Range(result[1].warnings[i].students) :
              i \in {j \in 1..Len(result[1].warnings) :
                        result[1].warnings[j].type # "ONE_WAY_AVOIDANCE"}}

\* the avoidance edges that qualify as one-way leftovers, in scan order
Leftovers ==
    SelectSeq(Edges(avoidance_graph[1]),
              LAMBDA e : /\ ~HasEdge(avoidance_graph[1], e[2], e[1])
                         /\ e[1] \notin NamedByOthers
                         /\ e[2] \notin NamedByOthers)

\* C13: at most 5 ONE_WAY_AVOIDANCE warnings are returned, and they are for the
\* first 5 qualifying edges in the order the avoidance edges are scanned
C13_OneWayCappedAtFive ==
    result # None =>
        LET W == ReturnedOfType("ONE_WAY_AVOIDANCE")
        IN  /\ Len(W) <= 5
            /\ Len(W) = (IF Len(Leftovers) < 5 THEN Len(Leftovers) ELSE 5)
            /\ \A i \in 1..Len(W) : W[i].students = Leftovers[i]
            /\ result[1].patterns.one_way_avoidance = Leftovers

\* six leftovers found, five reported
C13_Witness ==
    /\ result # None
    /\ Len(Leftovers) = 6
    /\ Len(ReturnedOfType("ONE_WAY_AVOIDANCE")) = 5
    /\ result[1].summary.low_count = 5

\* ---------------------------------------------------------------- C14
\* the response set names nobody: no relationship type gets an edge
YieldsNoEdges ==
    \A u \in RosterIds : \A v \in RosterIds : \A t \in RelTypes : Nominations(u, v, t) = {}

\* an avoidance analysis that reports nothing
IsEmptyAnalysis(a) ==
    /\ {"warnings", "summary"} \subseteq DOMAIN a
    /\ a.warnings = <<>>
    /\ a.summary.requires_attention = FALSE
    /\ a.summary.overall_risk = "NONE"

\* C14: for a response set that yields no edges, every layer's metrics are
\* the empty metrics, and the avoidance analysis handed back by analyze,
\* by get_avoidance_warnings and by run_multilayer_analysis has no warning,
\* requires_attention false and overall risk NONE.
C14_NoEdgesGiveEmptyAnalysis ==
    YieldsNoEdges =>
        /\ \A t \in DOMAIN layer_metrics : layer_metrics[t] = EmptyMetrics
        /\ result # None => IsEmptyAnalysis(result[1])
        /\ \A r \in Range(returned) :
              /\ r.op = "get_avoidance_warnings" =>
                    ~r.raised /\ IsEmptyAnalysis(r.value)
              /\ r.op = "run_multilayer_analysis" =>
                    /\ ~r.raised
                    /\ \A t \in DOMAIN r.value.layers : r.value.layers[t] = EmptyMetrics
                    /\ IsEmptyAnalysis(r.value.avoidance_warnings)

\* ---------------------------------------------------------------- C15
\* the graph analysed under a key of layer_metrics
AnalysedGraph(key) == IF key = "combined" THEN combined_graph[1] ELSE layers[key]

\* every per-node map empty, every scalar aggregate zero
IsEmptyMetrics(x) ==
    /\ \A k \in DOMAIN x.basic : x.basic[k] = <<>>
    /\ x.advanced.reciprocity = [overall |-> Zero, mutual_edges |-> <<>>, one_way_edges |-> <<>>]
    /\ x.advanced.transitivity = Zero
    /\ x.advanced.average_clustering = Zero
    /\ x.advanced.density = Zero
    /\ x.advanced.communities = <<>>
    /\ x.advanced.num_communities = 0
    /\ x.summary = <<>>
    /\ x.top_students = <<>>

\* C15: a graph without edges, with or without nodes, is given the empty
\* metrics (every per-node map empty, every scalar zero) without a raise and
\* without a call of a graph algorithm.
C15_ZeroEdgesGiveEmptyMetrics ==
    /\ layer_metrics # <<>> => status = "built"
    /\ \A key \in DOMAIN layer_metrics :
          NumberOfEdges(AnalysedGraph(key)) = 0 =>
              /\ layer_metrics[key] = EmptyMetrics
              /\ IsEmptyMetrics(layer_metrics[key])
              /\ nx_calls[key] = {}

\* a pass that met a layer with edges and a layer of isolated nodes
C15_Witness ==
    /\ {"friends", "helpers"} \subseteq DOMAIN layer_metrics
    /\ NumberOfEdges(layers["friends"]) > 0
    /\ nx_calls["friends"] # {}
    /\ NumberOfNodes(layers["helpers"]) > 0
    /\ NumberOfEdges(layers["helpers"]) = 0
    /\ layer_metrics["helpers"] = EmptyMetrics

\* ---------------------------------------------------------------- C16
\* the unordered pairs of distinct nodes of G
Dyads(G) == {d \in SUBSET Range(G.nodes) : Cardinality(d) = 2}

\* the directed edges between the two nodes of a dyad
EdgesWithin(G, d) == {e \in EdgeSet(G) : e[1] # e[2] /\ {e[1], e[2]} = d}

\* C16: the dyad census of a graph of n nodes puts each unordered pair of
\* distinct nodes in one class: mutual (both directions), asymmetric (one) or
\* null (none), so mutual + asymmetric + null = n(n-1)/2 = total_possible,
\* for n = 0 and n = 1 too.
C16_DyadCensusPartitionsPairs ==
    \A r \in Range(returned) :
        r.op = "_dyad_census" =>
            LET G == layers[r.arg]
                n == NumberOfNodes(G)
                c == r.value
            IN  /\ ~r.raised
                /\ c.mutual = Cardinality({d \in Dyads(G) : Cardinality(EdgesWithin(G, d)) = 2})
                /\ c.asymmetric = Cardinality({d \in Dyads(G) : Cardinality(EdgesWithin(G, d)) = 1})
                /\ c.null = Cardinality({d \in Dyads(G) : EdgesWithin(G, d) = {}})
                /\ 2 * (c.mutual + c.asymmetric + c.null) = n * (n - 1)
                /\ c.total_possible = c.mutual + c.asymmetric + c.null

\* a census of three nodes with a mutual, an asymmetric and a null dyad
C16_Witness ==
    \E r \in Range(returned) :
        /\ r.op = "_dyad_census"
        /\ NumberOfNodes(layers[r.arg]) = 3
        /\ r.value.mutual = 1 /\ r.value.asymmetric = 1 /\ r.value.null = 1

\* ---------------------------------------------------------------- C17
\* the edges of G whose reverse edge is in G as well
ReversedEdges(G) == {e \in EdgeSet(G) : HasEdge(G, e[2], e[1])}

\* the overall reciprocity stored for a graph is the share of its edges whose
\* reverse exists, within [0, 1], and 1 exactly when all of them have one
ReciprocityIsReversedShare(G, overall) ==
    /\ overall.den > 0
    /\ overall.num * NumberOfEdges(G) = Cardinality(ReversedEdges(G)) * overall.den
    /\ 0 <= overall.num /\ overall.num <= overall.den
    /\ overall.num = overall.den <=> ReversedEdges(G) = EdgeSet(G)

\* C17: for every analysed graph (here: with at least one edge), the overall
\* reciprocity is (edges whose reverse edge exists) / (edges), lies in [0, 1]
\* and is 1 iff every edge's reverse exists.
C17_ReciprocityIsReversedShare ==
    \A key \in DOMAIN layer_metrics :
        NumberOfEdges(AnalysedGraph(key)) > 0 =>
            ReciprocityIsReversedShare(AnalysedGraph(key),
                                       layer_metrics[key].advanced.reciprocity.overall)

\* ---------------------------------------------------------------- C18
\* the entry layer_correlation holds for the two positive types, under either
\* order of the two names in its key
EntriesOfPair(a, b) ==
    {k \in DOMAIN cross_layer_metrics.layer_correlation : k \in {PairKey(a, b), PairKey(b, a)}}

\* the entry of a pair is the overlap count and the Jaccard similarity of the
\* two edge sets, 0 when both are empty
IsCorrelationOf(entry, G1, G2) ==
    LET both == EdgeSet(G1) \cap EdgeSet(G2)
        either == EdgeSet(G1) \cup EdgeSet(G2)
    IN  /\ entry.overlap_count = Cardinality(both)
        /\ entry.jaccard.den > 0
        /\ IF either = {} THEN entry.jaccard.num = 0
           ELSE entry.jaccard.num * Cardinality(either) = Cardinality(both) * entry.jaccard.den

\* C18: after analyze_all_layers, layer_correlation has one entry for each of
\* the 15 unordered pairs of distinct positive layers and none with the
\* avoidance layer; an entry holds the number of edges the two layers share
\* and that number over the size of the union of the edge sets, 0 when both
\* layers are empty.
C18_OneEntryPerPositivePair ==
    (cross_layer_metrics # <<>> /\ status = "built") =>
        LET lc == cross_layer_metrics.layer_correlation
        IN  /\ Cardinality(DOMAIN lc) = 15
            /\ DOMAIN lc \subseteq {PairKey(a, b) : a, b \in PositiveTypes}
            /\ \A a \in PositiveTypes : \A b \in PositiveTypes \ {a} :
                  /\ Cardinality(EntriesOfPair(a, b)) = 1
                  /\ \A k \in EntriesOfPair(a, b) : IsCorrelationOf(lc[k], layers[a], layers[b])

\* ---------------------------------------------------------------- C19
\* C19: once build_layers has run, analyze_all_layers, analyze and
\* get_student_profile, in any order and any number of times, leave every
\* layer and the combined graph as they are (nodes, edges, weights), the
\* graphs held by the warning system included.
C19_AnalysesLeaveGraphsAlone ==
    [][status = "built" =>
          /\ layers' = layers
          /\ combined_graph' = combined_graph
          /\ avoidance_graph # None =>
                (avoidance_graph' = avoidance_graph /\ positive_layers' = positive_layers)]_vars

\* the three analyses have run over layers with an edge
C19_Witness ==
    /\ status = "built"
    /\ \E t \in DOMAIN layers : NumberOfEdges(layers[t]) > 0
    /\ layer_metrics # <<>>
    /\ result # None
    /\ \E r \in Range(returned) :
          r.op = "get_student_profile" /\ ~r.raised /\ r.value # <<>>

\* ---------------------------------------------------------------- C20
\* C20: a second build_layers on the same analyzer gives layers and a
\* combined graph equal to those of the first, and a second analyze on the
\* same warning system gives the warning list, patterns and summary of the
\* first.
C20_RerunGivesSameResult ==
    [][/\ (status = "built" /\ status' = "built") =>
              (layers' = layers /\ combined_graph' = combined_graph)
       /\ (result # None /\ result' # None) =>
              (result' = result /\ warnings' = warnings)]_vars

\* ================================================= service and engine claims
\* ---------------------------------------------------------------- C21
\* the four entry points that load the classroom's data first
LoadingEntryPoints ==
    {"run_analysis", "get_layer_analysis", "get_avoidance_warnings",
     "ClassroomAnalyzer.get_student_profile"}

C21_WitnessUnknownKey ==
    /\ responses # <<>>
    /\ \E r \in Range(returned) :
          r.op = "get_layer_analysis" /\ r.arg = "clique" /\ r.raised /\ r.value = "ValueError"

\* ---------------------------------------------------------------- C22
\* the roster members who named student x (id) for type t, and those x named
NamedBy(x, t) == {u \in RosterIds : Nominations(u, x, t) # {}}

NamedOf(x, t) == {v \in RosterIds : Nominations(x, v, t) # {}}

\* the sum of a count per relationship type over the given types
RECURSIVE SumOfCounts(_, _)
SumOfCounts(counts, types) ==
    IF types = {} THEN 0
    ELSE LET t == CHOOSE t \in types : TRUE
         IN  counts[t] + SumOfCounts(counts, types \ {t})

\* C22: the profile of roster member X gives, for each of the seven layers,
\* received_count = the number of individuals who named X = the length of
\* chosen_by, and given_count = the number of individuals X named = the
\* length of chose; the totals add those counts over the six positive layers,
\* and avoidance_received / avoidance_given are the avoidance layer's counts.
C22_ProfileCountsNominations ==
    \A r \in Range(returned) :
        (r.op = "get_student_profile" /\ ~r.raised /\ r.value # <<>>) =>
            LET x == NameToId(students)[r.arg]
                p == r.value
            IN  /\ DOMAIN p.layers = RelTypes
                /\ \A t \in RelTypes :
                      /\ p.layers[t].received_count = Cardinality(NamedBy(x, t))
                      /\ Range(p.layers[t].chosen_by) = {IdToName(students)[u] : u \in NamedBy(x, t)}
                      /\ Len(p.layers[t].chosen_by) = p.layers[t].received_count
                      /\ p.layers[t].given_count = Cardinality(NamedOf(x, t))
                      /\ Range(p.layers[t].chose) = {IdToName(students)[v] : v \in NamedOf(x, t)}
                      /\ Len(p.layers[t].chose) = p.layers[t].given_count
                /\ p.overall.total_positive_received =
                       SumOfCounts([t \in RelTypes |-> p.layers[t].received_count], PositiveTypes)
                /\ p.overall.total_positive_given =
                       SumOfCounts([t \in RelTypes |-> p.layers[t].given_count], PositiveTypes)
                /\ p.overall.avoidance_received = p.layers["avoidance"].received_count
                /\ p.overall.avoidance_given = p.layers["avoidance"].given_count

\* a profile of someone named in a positive layer and avoided by another
C22_Witness ==
    \E r \in Range(returned) :
        /\ r.op = "get_student_profile" /\ ~r.raised /\ r.value # <<>>
        /\ r.value.overall.total_positive_received > 0
        /\ r.value.overall.avoidance_received > 0

\* ---------------------------------------------------------------- C23
\* the AVOIDANCE_CLUSTER warnings of the returned result
ClusterWarningsOf(res) == SelectSeq(res.warnings, LAMBDA w : w.type = "AVOIDANCE_CLUSTER")

\* the members of the group a partition labels c
GroupOf(G, f, c) == {n \in Nodes(G) : f[n] = c}

\* the avoidance edges that run between two groups, either way
CrossingEdges(G, f, c1, c2) == {e \in EdgeSet(G) : {f[e[1]], f[e[2]]} = {c1, c2}}

\* the unordered pairs of detected groups with at least 3 crossing edges
ClusterPairs(G, f) ==
    {pair \in SUBSET {f[n] : n \in Nodes(G)} :
        /\ Cardinality(pair) = 2
        /\ \E c1 \in pair : \E c2 \in pair :
              c1 # c2 /\ Cardinality(CrossingEdges(G, f, c1, c2)) >= 3}

\* a warning list that holds exactly one warning for each such pair
OneWarningPerPair(G, f, W) ==
    /\ Len(W) = Cardinality(ClusterPairs(G, f))
    /\ \A pair \in ClusterPairs(G, f) :
          \E i \in 1..Len(W) :
             /\ {Range(W[i].data.group1), Range(W[i].data.group2)}
                    = {GroupOf(G, f, c) : c \in pair}
             /\ W[i].data.cross_edges
                    = Cardinality({e \in EdgeSet(G) : {f[e[1]], f[e[2]]} = pair})
             /\ Range(W[i].students) = UNION {GroupOf(G, f, c) : c \in pair}

\* C23: AVOIDANCE_CLUSTER warnings are emitted only when the undirected
\* projection of the avoidance layer has at least 3 edges, and a detector that
\* ran on a partition emits exactly one warning for each unordered pair of
\* groups with at least 3 crossing edges, both directions counted, and none
\* for a pair with fewer
C23_ClusterWarningsPerGroupPair ==
    /\ result # None =>
          LET G == avoidance_graph[1]
              W == ClusterWarningsOf(result[1])
          IN  W # <<>> =>
                 /\ Cardinality(UndirectedEdges(G)) >= 3
                 /\ \E f \in Partitions(G) : OneWarningPerPair(G, f, W)
    /\ avoidance_graph # None =>
          LET G == avoidance_graph[1]
          IN  ReachesPartition(G) =>
                 \A f \in Partitions(G) :
                    OneWarningPerPair(G, f,
                        DetectAvoidanceClusters(G, <<>>, Some(f)).warnings)

\* the detector ran on a layer of 3 directed edges over 2 undirected ones and
\* warned of nothing
C23_WitnessFewUndirected ==
    /\ result # None
    /\ NumberOfEdges(avoidance_graph[1]) >= 3
    /\ Cardinality(UndirectedEdges(avoidance_graph[1])) < 3
    /\ ReachesPartition(avoidance_graph[1])
    /\ Partitions(avoidance_graph[1]) # {}
    /\ ClusterWarningsOf(result[1]) = <<>>

\* two groups with crossing edges were warned of, once
C23_Witness ==
    /\ result # None
    /\ Len(ClusterWarningsOf(result[1])) = 1
    /\ ClusterWarningsOf(result[1])[1].data.cross_edges >= 3

\* ---------------------------------------------------------------- C24
\* network data in the shape of a layer's for the graph G: one node entry per
\* node, one edge entry with its weight per edge
IsNetworkDataOf(nd, G) ==
    /\ nd # <<>>
    /\ DOMAIN nd = {"nodes", "edges"}
    /\ Len(nd.nodes) = NumberOfNodes(G)
    /\ {nd.nodes[k].id : k \in 1..Len(nd.nodes)} = Nodes(G)
    /\ Len(nd.edges) = NumberOfEdges(G)
    /\ {<<nd.edges[k].source, nd.edges[k].target, nd.edges[k].weight>> :
            k \in 1..Len(nd.edges)}
           = {<<e[1], e[2], G.weight[e]>> : e \in EdgeSet(G)}

\* the merged positive graph of the loaded roster and responses
MergedPositiveGraph ==
    BuildCombinedGraph(students, BuildLayersFrom(1, <<>>, students, responses).layers)

\* C24: for the key 'combined', get_layer_analysis and the 'combined' entry of
\* get_all_results carry network data of the merged positive graph in the
\* shape of a layer's: one node entry per roster individual and one edge entry
\* with its weight per edge of the combined graph
C24_CombinedCarriesNetworkData ==
    \A r \in Range(returned) :
        /\ (r.op = "get_layer_analysis" /\ r.arg = "combined" /\ ~r.raised) =>
              IsNetworkDataOf(r.value.network_data, MergedPositiveGraph)
        /\ (r.op = "get_all_results" /\ ~r.raised /\ students # <<>>) =>
              IsNetworkDataOf(r.value.combined.network_data, MergedPositiveGraph)

\* ---------------------------------------------------------------- C25
\* a top list of graph G by the degree map deg: at most five entries, each with its
\* own count, and no node left out that has a strictly larger count than a
\* listed one
IsTopList(list, G, deg) ==
    /\ Len(list) <= 5
    /\ \A i \in 1..Len(list) :
          /\ list[i].name \in Nodes(G)
          /\ list[i].count = deg[list[i].name]
          /\ \A n \in Nodes(G) \ {list[k].name : k \in 1..Len(list)} :
                deg[n] <= list[i].count
    /\ \A i \in 1..Len(list) : \A j \in 1..Len(list) :
          i # j => list[i].name # list[j].name

\* the top-entities result of graph G
IsTopEntitiesOf(top, G) ==
    /\ {"most_chosen", "most_active", "isolated"} \subseteq DOMAIN top
    /\ Range(top.isolated) = {n \in Nodes(G) : InDegree(G, n) = 0}
    /\ Len(top.isolated) = Cardinality(Range(top.isolated))
    /\ IsTopList(top.most_chosen, G, [n \in Nodes(G) |-> InDegree(G, n)])
    /\ IsTopList(top.most_active, G, [n \in Nodes(G) |-> OutDegree(G, n)])

\* C25: for every analysed layer, a layer with zero edges included, the
\* top-entities result lists as isolated exactly the nodes of in-degree zero,
\* and as most chosen (most active) at most five nodes such that no unlisted
\* node has a strictly larger in-degree (out-degree) than a listed one
C25_TopEntitiesOfEveryLayer ==
    \A key \in DOMAIN layer_metrics :
        IsTopEntitiesOf(layer_metrics[key].top_students, AnalysedGraph(key))

\* the same for the layers that have an edge
C25_TopEntitiesOfLayersWithEdges ==
    \A key \in DOMAIN layer_metrics :
        NumberOfEdges(AnalysedGraph(key)) > 0 =>
            IsTopEntitiesOf(layer_metrics[key].top_students, AnalysedGraph(key))

\* ---------------------------------------------------------------- C26
\* the warnings of one type, in the order of the list
WarningsOfType(ws, type) == SelectSeq(ws, LAMBDA w : w.type = type)

\* the detectors that ran before the cluster detector
EarlierTypes ==
    {"MUTUAL_AVOIDANCE", "AVOIDANCE_TARGET", "AVOIDANCE_INITIATOR", "ISOLATED_WITH_AVOIDANCE"}

\* the individuals named by the warnings of the earlier detectors
EarlierWarned(ws) ==
    UNION {Range(ws[i].students) : i \in {k \in 1..Len(ws) : ws[k].type \in EarlierTypes}}

\* the one-way avoidance edges between individuals nobody warned about yet
LeftoverOneWay(G, warned) ==
    {e \in EdgeSet(G) : ~HasEdge(G, e[2], e[1]) /\ e[1] \notin warned /\ e[2] \notin warned}

\* the analysis analyze() returns when community detection raised
AnalysisAfterFailure == AnalysisResult(RunAnalyze(avoidance_graph[1], positive_layers, None))

\* C26: when community detection fails inside the cluster detector, analyze
\* still completes: it reports no cluster and no AVOIDANCE_CLUSTER warning,
\* keeps the mutual, target, initiator and isolated warnings of a run without
\* the failure, and still runs the one-way detector, the sort and the summary
C26_ClusterFailureIsContained ==
    (result # None /\ ReachesPartition(avoidance_graph[1])) =>
        LET G == avoidance_graph[1]
            failed == AnalysisAfterFailure
            W == failed.warnings
        IN  /\ failed.patterns.avoidance_clusters = <<>>
            /\ WarningsOfType(W, "AVOIDANCE_CLUSTER") = <<>>
            /\ \A t \in EarlierTypes :
                  WarningsOfType(W, t) = WarningsOfType(result[1].warnings, t)
            /\ \A k \in {"mutual_avoidance", "avoidance_targets", "avoidance_initiators",
                         "isolated_with_avoidance"} :
                  failed.patterns[k] = result[1].patterns[k]
            /\ Range(failed.patterns.one_way_avoidance)
                   = LeftoverOneWay(G, EarlierWarned(result[1].warnings))
            /\ {w.students : w \in Range(WarningsOfType(W, "ONE_WAY_AVOIDANCE"))}
                   \subseteq LeftoverOneWay(G, EarlierWarned(result[1].warnings))
            /\ Len(WarningsOfType(W, "ONE_WAY_AVOIDANCE"))
                   = IF Len(failed.patterns.one_way_avoidance) < 5
                     THEN Len(failed.patterns.one_way_avoidance) ELSE 5
            /\ \A i \in 1..Len(W) : \A j \in 1..Len(W) :
                  i < j => Priority(W[i]) <= Priority(W[j])
            /\ failed.summary.total_warnings = Len(W)
            /\ "AVOIDANCE_CLUSTER" \notin DOMAIN failed.summary.type_counts
            /\ failed.summary.total_avoidance_edges = NumberOfEdges(G)

\* community detection raised on a layer where it could have found two groups
\* in conflict: the result is the one without clusters, it keeps a mutual
\* warning and has a one-way warning the cluster warning would have covered
C26_Witness ==
    /\ result # None
    /\ ReachesPartition(avoidance_graph[1])
    /\ result[1] = AnalysisAfterFailure
    /\ \E f \in Partitions(avoidance_graph[1]) :
          DetectAvoidanceClusters(avoidance_graph[1], <<>>, Some(f)).warnings # <<>>
    /\ WarningsOfType(result[1].warnings, "MUTUAL_AVOIDANCE") # <<>>
    /\ WarningsOfType(result[1].warnings, "ONE_WAY_AVOIDANCE") # <<>>

\* ---------------------------------------------------------------- C27
\* the run of _analyze_single_layer call r in which no library call raised
WithoutFailure(r) ==
    AnalyzeSingleLayerWith(GraphUnder(r.arg.layer_type), r.arg.layer_type, {},
                           r.arg.communities)

\* C27: the failure of one best-effort metric affects that metric only: a
\* failed closeness or eigenvector centrality leaves that map alone at zero
\* for every node, a failed community detection leaves communities empty,
\* their number 0 and the modularity 0, and every other metric is what it is
\* in the run without the failure
C27_BestEffortFailureIsLocal ==
    \A r \in Range(returned) :
        (r.op = "_analyze_single_layer" /\ ~IsDegenerate(GraphUnder(r.arg.layer_type))) =>
            LET G == GraphUnder(r.arg.layer_type)
                failed == r.arg.failed
                ok == WithoutFailure(r)
                got == r.value
            IN  /\ \A k \in {"closeness_centrality", "eigenvector_centrality"} :
                      got.basic[k] = IF k \in failed
                                     THEN [n \in Nodes(G) |-> Fraction(0, 1)]
                                     ELSE ok.basic[k]
                /\ \A k \in DOMAIN ok.basic \ BestEffort : got.basic[k] = ok.basic[k]
                /\ "pagerank" \notin failed => got.basic.pagerank = ok.basic.pagerank
                /\ "communities" \in failed =>
                      /\ got.advanced.communities = <<>>
                      /\ got.advanced.num_communities = 0
                      /\ got.advanced.modularity = Fraction(0, 1)
                /\ "communities" \notin failed =>
                      /\ got.advanced.communities = ok.advanced.communities
                      /\ got.advanced.num_communities = ok.advanced.num_communities
                      /\ got.advanced.modularity = ok.advanced.modularity
                      /\ DOMAIN got.advanced.communities # {}
                /\ \A k \in DOMAIN ok.advanced
                            \ {"communities", "num_communities", "modularity",
                               "triadic_census"} :
                      got.advanced[k] = ok.advanced[k]
                /\ "triadic_census" \notin failed =>
                      got.advanced.triadic_census = ok.advanced.triadic_census
                /\ got.summary = ok.summary
                /\ got.top_students = ok.top_students

\* closeness centrality alone failed on a layer of three students: its map is
\* zero, the eigenvector map and the communities are there
C27_Witness ==
    \E r \in Range(returned) :
        /\ r.op = "_analyze_single_layer"
        /\ r.arg.failed = {"closeness_centrality"}
        /\ NumberOfNodes(GraphUnder(r.arg.layer_type)) = 3
        /\ \A n \in Nodes(GraphUnder(r.arg.layer_type)) :
              r.value.basic.closeness_centrality[n] = Fraction(0, 1)
        /\ r.value.basic.closeness_centrality # WithoutFailure(r).basic.closeness_centrality
        /\ r.value.basic.eigenvector_centrality
               = LibraryValue(GraphUnder(r.arg.layer_type), "eigenvector_centrality")
        /\ r.value.advanced.num_communities = 2

\* community detection alone failed
C27_WitnessCommunities ==
    \E r \in Range(returned) :
        /\ r.op = "_analyze_single_layer"
        /\ r.arg.failed = {"communities"}
        /\ r.value.advanced.communities = <<>>
        /\ r.value.advanced.modularity = Fraction(0, 1)
        /\ WithoutFailure(r).advanced.num_communities = 2
        /\ r.value.basic.closeness_centrality
               = LibraryValue(GraphUnder(r.arg.layer_type), "closeness_centrality")

\* ---------------------------------------------------------------- C28
\* the pattern list kept for a warning type
PatternOf(type) ==
    CASE type = "MUTUAL_AVOIDANCE" -> "mutual_avoidance"
      [] type = "AVOIDANCE_TARGET" -> "avoidance_targets"
      [] type = "AVOIDANCE_INITIATOR" -> "avoidance_initiators"
      [] type = "ISOLATED_WITH_AVOIDANCE" -> "isolated_with_avoidance"
      [] type = "AVOIDANCE_CLUSTER" -> "avoidance_clusters"
      [] type = "ONE_WAY_AVOIDANCE" -> "one_way_avoidance"

\* the entries of a pattern: the items of a list, the keys of a dict
EntriesOf(type) == Cardinality(DOMAIN result[1].patterns[PatternOf(type)])

\* C28: in every analysis result each of the six pattern lists has as many
\* entries as there are warnings of its type
C28_PatternsMatchWarnings ==
    result # None =>
        \A type \in DOMAIN WARNING_TYPES :
            EntriesOf(type) = Len(ReturnedOfType(type))

\* C28 (amended): the five pattern lists of the mutual, target, initiator,
\* isolated and cluster detectors have as many entries as there are warnings
\* of their type; patterns.one_way_avoidance lists every one-way leftover
\* while the ONE_WAY_AVOIDANCE warnings stop at five
C28_PatternsMatchWarningsUpToCap ==
    result # None =>
        /\ \A type \in DOMAIN WARNING_TYPES \ {"ONE_WAY_AVOIDANCE"} :
              EntriesOf(type) = Len(ReturnedOfType(type))
        /\ Len(ReturnedOfType("ONE_WAY_AVOIDANCE"))
              = IF EntriesOf("ONE_WAY_AVOIDANCE") < 5
                THEN EntriesOf("ONE_WAY_AVOIDANCE") ELSE 5

\* six leftovers listed, five of them warned of, next to a result where a
\* mutual pair and a target have their entries
C28_Witness ==
    /\ result # None
    /\ EntriesOf("ONE_WAY_AVOIDANCE") = 6
    /\ Len(ReturnedOfType("ONE_WAY_AVOIDANCE")) = 5

\* a result with a mutual pair, a target and an initiator, entry by entry
C28_WitnessOthers ==
    /\ result # None
    /\ EntriesOf("MUTUAL_AVOIDANCE") = 1
    /\ EntriesOf("AVOIDANCE_TARGET") >= 1
    /\ EntriesOf("AVOIDANCE_INITIATOR") >= 1
    /\ EntriesOf("ONE_WAY_AVOIDANCE") >= 1

\* ---------------------------------------------------------------- C29
\* C29: within one analysis result no two warnings have the same id, whatever
\* the avoidance graph and the names of the individuals
C29_WarningIdsAreUnique ==
    result # None =>
        LET W == result[1].warnings
        IN  \A i \in 1..Len(W) : \A j \in 1..Len(W) :
                i # j => W[i].id # W[j].id

\* ---------------------------------------------------------------- C30
\* the call that just ended raised ValueError
RaisedValueError(r) == r.raised /\ r.value = "ValueError"

\* C30: on a ClassroomAnalyzer, in any sequence of calls, save_result and
\* get_ai_interpretation raise ValueError unless an earlier analyze completed,
\* convert_to_network_data raises ValueError unless load_data loaded at least
\* one student, analyze raises ValueError and sets no result when the
\* converted network has no edges; so no AnalysisResult row is deleted or
\* written before an analysis has succeeded
C30_NothingStoredBeforeAnalysis ==
    [][/\ analysis_result' # analysis_result =>
             \E r \in Range(returned') :
                r.op = "analyze" /\ ~r.raised /\ analysis_result' = Some(r.value)
       /\ \A r \in Range(returned') :
             /\ r.op \in {"save_result", "get_ai_interpretation"} =>
                   (analysis_result = None => RaisedValueError(r))
             /\ r.op = "convert_to_network_data" =>
                   (Len(loaded_students) = 0 => RaisedValueError(r))
             /\ (r.op = "analyze" /\ network_data' # None
                    /\ network_data'[1].edges = <<>>) =>
                   (analysis_result' = analysis_result /\ RaisedValueError(r))
             /\ (r.op = "analyze" /\ ~r.raised) =>
                   (network_data' # None /\ network_data'[1].edges # <<>>)
       /\ analysis_rows' # analysis_rows =>
             /\ analysis_result # None
             /\ analysis_rows' = <<analysis_result[1]>>
             /\ \E r \in Range(returned') : r.op = "save_result" /\ ~r.raised
      ]_vars

\* the row of an earlier run was replaced by the result of a completed analyze
C30_Witness ==
    /\ analysis_result # None
    /\ analysis_rows = <<analysis_result[1]>>
    /\ \E r \in Range(returned) : r.op = "save_result" /\ ~r.raised

\* save_result was refused while nothing had been analysed, the stored row is
\* still there
C30_WitnessRefused ==
    /\ analysis_result = None
    /\ analysis_rows = <<StoredRow>>
    /\ network_data # None
    /\ network_data[1].edges = <<>>
    /\ \E r \in Range(returned) : r.op = "save_result" /\ RaisedValueError(r)

====
